---- MODULE Spec2Model ----
(***************************************************************************)
(* Model of the cashubash wallet gateway (src/src/index.ts), of the        *)
(* client factory it uses (src/src/ui/qr.ts) and of the camera scanner     *)
(* module (src/unnamed/part_000).                                          *)
(*                                                                         *)
(* The gateway is a single-threaded event loop: a handler runs without     *)
(* interruption from one await to the next, and the handlers of different  *)
(* requests interleave at their awaits.  Every action below is one such    *)
(* synchronous stretch of one request's handler.  A handler that waits for *)
(* a promise that is settled already resumes before the next request, body *)
(* or remote result is handled.                                            *)
(***************************************************************************)
EXTENDS Integers, Sequences, FiniteSets, TLC

\* ------------------------------------------------------------------ bounds
MaxSessions == 2   \* session ids in use
MaxInFlight == 2   \* requests whose handlers have not answered yet
MaxRequests == 3   \* requests received in a run
MaxScans == 3      \* scanners constructed in a run
MaxCalls == 2      \* calls of the scanner module that have not returned yet
MaxHandlers == 3   \* click handlers of the page that have not completed yet
MaxFetches == 2    \* handlers of the page that wait for an answer
MaxTimers == 2     \* interval timers registered at a time

SessionIds == 1..MaxSessions
ReqIds == 1..MaxInFlight

\* ----------------------------------------------------------------- strings
\* A string is a sequence of characters; an optional string is a record that
\* says whether it is defined.
Undefined == [defined |-> FALSE, value |-> <<>>]
Str(s) == [defined |-> TRUE, value |-> s]

\* The raw strings a request body may carry as serverPubkey, and the raw
\* values of the SERVER_PUBKEY variable.
RawStrings == { <<" ">>, <<" ", "a", " ">>, <<"b">>, <<"c">> }

EnvStrings == { <<" ">>, <<"a", " ">> }

IsSpace(c) == c = " "

RECURSIVE TrimStart(_)
TrimStart(s) ==
  IF s = <<>> THEN s
  ELSE IF IsSpace(Head(s)) THEN TrimStart(Tail(s)) ELSE s

RECURSIVE TrimEnd(_)
TrimEnd(s) ==
  IF s = <<>> THEN s
  ELSE IF IsSpace(s[Len(s)]) THEN TrimEnd(SubSeq(s, 1, Len(s) - 1)) ELSE s

\* String.prototype.trim
trim(s) == TrimEnd(TrimStart(s))

\* ------------------------------------------------------------------- state
VARIABLES
  SERVER_PUBKEY,  \* process.env.SERVER_PUBKEY, an optional raw string
  sessions,       \* the session map: id -> [serverPubkey, client]
  clients,        \* every client ever constructed: id -> its record
  req,            \* the requests in flight: slot -> the handler's position
  arrived,        \* the number of requests received so far
  answered,       \* the request answered by the last step, with its answer
  cleared         \* the sessions a DELETE /api/server-pubkey has answered for,
                  \* with no other request of theirs in flight, and no POST
                  \* /api/server-pubkey has answered 200 for since

gwVars == <<SERVER_PUBKEY, sessions, clients, req, arrived, answered, cleared>>

VARIABLES
  activeScanner,  \* the module's activeScanner: a scan id, 0 for null
  activeCancel,   \* the module's activeCancel: the scan whose cancel it is, 0
  scans,          \* every scan started: its promise and its scanner
  calls           \* the calls of scanInvoiceOnce and cancelInvoiceScan under way

scVars == <<activeScanner, activeCancel, scans, calls>>

VARIABLES
  scanDisabled,   \* scanInvoiceButton.disabled
  panelHidden,    \* whether invoiceScannerPanel has the attribute hidden
  ui,             \* the click handlers under way: slot -> its position
  finished        \* the click handler completed by the last step

uiVars == <<scanDisabled, panelHidden, ui, finished>>

NoClient == 0
NoCookie == 0

Kinds ==
  { "GetPubkey", "PostPubkey", "DeletePubkey",
    "Balance", "MakeInvoice", "PayInvoice", "SendEcash" }

WalletKinds == { "Balance", "MakeInvoice", "PayInvoice", "SendEcash" }

\* A request body as the handlers look at it: whether it parses as JSON,
\* whether it parses to null, payload.serverPubkey (a string or not),
\* payload.amount (its type, whether it is finite, its value) and whether
\* payload.invoice is truthy.
NoBody ==
  [ json |-> FALSE, isNull |-> FALSE, isString |-> FALSE, text |-> <<>>,
    amountType |-> "undefined", finite |-> FALSE, amount |-> 0,
    invoice |-> FALSE ]

BadJson == NoBody

\* The body `null`: request.json() returns null, and reading a property of
\* the payload throws a TypeError.
NullBody == [NoBody EXCEPT !.json = TRUE, !.isNull = TRUE]

PubkeyBodies ==
  { BadJson, NullBody, [NoBody EXCEPT !.json = TRUE] }
  \cup { [NoBody EXCEPT !.json = TRUE, !.isString = TRUE, !.text = t] :
           t \in RawStrings }

Amounts == { 0, 1 }

AmountFields ==
  { [amountType |-> "undefined", finite |-> FALSE, amount |-> 0],
    [amountType |-> "string", finite |-> FALSE, amount |-> 0],
    [amountType |-> "number", finite |-> FALSE, amount |-> 0] }
  \cup { [amountType |-> "number", finite |-> TRUE, amount |-> n] :
           n \in Amounts }

\* payload.invoice is read by /api/pay-invoice alone.
WalletBodies(kind) ==
  { BadJson, NullBody }
  \cup { [NoBody EXCEPT !.json = TRUE, !.amountType = a.amountType,
                        !.finite = a.finite, !.amount = a.amount,
                        !.invoice = i] :
           a \in AmountFields,
           i \in IF kind = "PayInvoice" THEN BOOLEAN ELSE {FALSE} }

\* A request: which handler runs it (kind) and where it waits (pc); the
\* cashubash_session cookie it carried (cookie), the session ensureSession
\* gave it (sid) and whether its answer sets the cookie; its parsed body; its answer (status, message, the serverPubkey field and the boolean
\* field hasServerPubkey / configured / cleared); and what it did: whether its
\* session had a serverPubkey when it was validated (keyed), whether a POST
\* found a pubkey other than the session's (changed), the client cached when
\* it entered disconnectSessionClient (prev) and the one it called
\* disconnect() on (target), the client it constructed (made), its remote
\* calls, whether the awaited disconnect or remote call threw, what the
\* remote call returned (result, "" before it settles), and whether
\* createCashubashClient threw in its ensureSessionClient (createThrew).
IdleReq ==
  [ kind |-> "none", pc |-> "idle", cookie |-> NoCookie, sid |-> 0,
    setCookie |-> FALSE, body |-> NoBody, status |-> 0, message |-> "", answer |-> Undefined,
    flag |-> FALSE, keyed |-> FALSE, changed |-> FALSE, prev |-> NoClient,
    target |-> NoClient, made |-> NoClient, calls |-> <<>>, threw |-> FALSE,
    result |-> "", createThrew |-> FALSE ]


\* ------------------------------------------------- src/src/ui/qr.ts helpers
\* getDefaultServerPubkey: the trimmed SERVER_PUBKEY, undefined when blank.
getDefaultServerPubkey ==
  LET configured ==
        IF SERVER_PUBKEY.defined THEN trim(SERVER_PUBKEY.value) ELSE <<>>
  IN IF configured # <<>> THEN Str(configured) ELSE Undefined

\* createCashubashClient(serverPubkey): the pubkey the client is built for,
\* and whether construction succeeds; sdkOk is whether the SDK's constructor
\* returns rather than throws.
createCashubashClient(serverPubkey, sdkOk) ==
  LET own == IF serverPubkey.defined THEN trim(serverPubkey.value) ELSE <<>>
      candidate == IF own # <<>> THEN Str(own) ELSE getDefaultServerPubkey
  IN IF ~candidate.defined
       THEN [ok |-> FALSE, pubkey |-> <<>>]
       ELSE [ok |-> sdkOk, pubkey |-> candidate.value]

\* ------------------------------------------------- src/src/index.ts helpers
NewContext == [serverPubkey |-> getDefaultServerPubkey, client |-> NoClient]

ensureSessionSharing(cookie, uuid) ==
  LET isNew == cookie = NoCookie
      id == IF isNew THEN uuid ELSE cookie
      shared == IF DOMAIN sessions = {}
                  THEN NewContext
                  ELSE sessions[CHOOSE s \in DOMAIN sessions : TRUE]
  IN [ id |-> id,
       setCookie |-> isNew,
       sessions |-> IF id \in DOMAIN sessions
                      THEN sessions
                      ELSE (id :> shared) @@ sessions ]

ensureSessionRedefaulting(cookie, uuid) ==
  LET isNew == cookie = NoCookie
      id == IF isNew THEN uuid ELSE cookie
  IN [ id |-> id,
       setCookie |-> isNew,
       sessions |-> IF id \in DOMAIN sessions
                      THEN IF sessions[id].serverPubkey.defined
                             THEN sessions
                             ELSE [sessions EXCEPT ![id].serverPubkey =
                                     getDefaultServerPubkey]
                      ELSE (id :> NewContext) @@ sessions ]

\* ensureSession: the session id of the request, whether a cookie is set, and
\* the session map afterwards.  uuid is the value randomUUID() returns.
ensureSession(cookie, uuid) ==
  LET isNew == cookie = NoCookie
      id == IF isNew THEN uuid ELSE cookie
  IN [ id |-> id,
       setCookie |-> isNew,
       sessions |-> IF id \in DOMAIN sessions
                      THEN sessions
                      ELSE (id :> NewContext) @@ sessions ]

NextClientId == Len(clients) + 1

ensureSessionClientUngated(context, sdkOk) ==
  LET pubkey == IF context.serverPubkey.defined
                  THEN trim(context.serverPubkey.value) ELSE <<>>
      made == createCashubashClient(Str(pubkey), sdkOk)
  IN IF context.client # NoClient
       THEN [context |-> context, client |-> context.client,
             created |-> FALSE, pubkey |-> <<>>, threw |-> FALSE]
     ELSE IF made.ok
       THEN [context |-> [context EXCEPT !.client = NextClientId],
             client |-> NextClientId, created |-> TRUE,
             pubkey |-> made.pubkey, threw |-> FALSE]
     ELSE [context |-> [serverPubkey |-> Undefined, client |-> NoClient],
           client |-> NoClient, created |-> FALSE, pubkey |-> <<>>,
           threw |-> TRUE]

ensureSessionClientUncached(context, sdkOk) ==
  LET pubkey == IF context.serverPubkey.defined
                  THEN trim(context.serverPubkey.value) ELSE <<>>
      made == createCashubashClient(Str(pubkey), sdkOk)
  IN IF pubkey = <<>>
       THEN [context |-> context, client |-> NoClient, created |-> FALSE,
             pubkey |-> <<>>, threw |-> FALSE]
     ELSE IF made.ok
       THEN [context |-> [context EXCEPT !.client = NextClientId],
             client |-> NextClientId, created |-> TRUE,
             pubkey |-> made.pubkey, threw |-> FALSE]
     ELSE [context |-> [serverPubkey |-> Undefined, client |-> NoClient],
           client |-> NoClient, created |-> FALSE, pubkey |-> <<>>,
           threw |-> TRUE]

ensureSessionClientKeepsPubkey(context, sdkOk) ==
  LET pubkey == IF context.serverPubkey.defined
                  THEN trim(context.serverPubkey.value) ELSE <<>>
      made == createCashubashClient(Str(pubkey), sdkOk)
  IN IF pubkey = <<>>
       THEN [context |-> context, client |-> NoClient, created |-> FALSE,
             pubkey |-> <<>>, threw |-> FALSE]
     ELSE IF context.client # NoClient
       THEN [context |-> context, client |-> context.client,
             created |-> FALSE, pubkey |-> <<>>, threw |-> FALSE]
     ELSE IF made.ok
       THEN [context |-> [context EXCEPT !.client = NextClientId],
             client |-> NextClientId, created |-> TRUE,
             pubkey |-> made.pubkey, threw |-> FALSE]
     ELSE [context |-> [context EXCEPT !.client = NoClient],
           client |-> NoClient, created |-> FALSE, pubkey |-> <<>>,
           threw |-> TRUE]

\* ensureSessionClient(context): the context afterwards, the client returned
\* (NoClient for null), the record of a client it constructed, and whether
\* createCashubashClient threw.
ensureSessionClient(context, sdkOk) ==
  LET pubkey == IF context.serverPubkey.defined
                  THEN trim(context.serverPubkey.value) ELSE <<>>
      made == createCashubashClient(Str(pubkey), sdkOk)
  IN IF pubkey = <<>>
       THEN [context |-> context, client |-> NoClient, created |-> FALSE,
             pubkey |-> <<>>, threw |-> FALSE]
     ELSE IF context.client # NoClient
       THEN [context |-> context, client |-> context.client,
             created |-> FALSE, pubkey |-> <<>>, threw |-> FALSE]
     ELSE IF made.ok
       THEN [context |-> [context EXCEPT !.client = NextClientId],
             client |-> NextClientId, created |-> TRUE,
             pubkey |-> made.pubkey, threw |-> FALSE]
     ELSE [context |-> [serverPubkey |-> Undefined, client |-> NoClient],
           client |-> NoClient, created |-> FALSE, pubkey |-> <<>>,
           threw |-> TRUE]

\* The clients after ensureSessionClient returned e for the given session.
WithCreated(e, session) ==
  IF e.created
    THEN Append(clients, [pubkey |-> e.pubkey, session |-> session,
                          disconnected |-> FALSE, staleCall |-> FALSE])
    ELSE clients

DisconnectTargetNone(context) == NoClient

\* disconnectSessionClient up to its await: the client disconnect() is called
\* on, NoClient when the function returns at once.
DisconnectTarget(context) == context.client

\* disconnectSessionClient after its await: the context it leaves.
AfterDisconnect(context) == [context EXCEPT !.client = NoClient]

Answer(rq, status, message) ==
  [rq EXCEPT !.pc = "done", !.status = status, !.message = message]

serviceUnavailableAs502(rq, message) == Answer(rq, 502, message)

serviceUnavailable(rq, message) == Answer(rq, 503, message)

badRequest(rq, message) == Answer(rq, 400, message)

\* The handler throws: the server's error(err) answers 500 with a plain
\* body and without the headers of the session.
internalError(rq) ==
  [Answer(rq, 500, "Internal Server Error") EXCEPT !.setCookie = FALSE]

\* The request record once ensureSession has run for it.
Arrived(kind, handle) ==
  [IdleReq EXCEPT !.kind = kind, !.sid = handle.id,
                  !.cookie = IF handle.setCookie THEN NoCookie ELSE handle.id,
                  !.setCookie = handle.setCookie]

\* The handler of some request is to resume after disconnectSessionClient.
\* The continuation of a settled promise runs before the next request, body
\* or remote result is handled.
Resuming == \E q \in ReqIds : req[q].pc = "resume"

\* The handler of some request is to resume after a disconnectSessionClient
\* that returned at once, having no client: nothing runs in between.
ResumingAtOnce ==
  \E q \in ReqIds : req[q].pc = "resume" /\ req[q].target = NoClient

\* A request arrives in the lowest free slot.
IsNext(r) ==
  /\ ~Resuming
  /\ arrived < MaxRequests
  /\ req[r].pc = "idle"
  /\ \A q \in ReqIds : q < r => req[q].pc # "idle"

\* The cleared sessions once the request rq of slot r has been answered.
ClearedBy(r, rq) ==
  IF rq.kind = "DeletePubkey" /\ \A q \in ReqIds \ {r} : req[q].sid # rq.sid
    THEN cleared \cup {rq.sid}
  ELSE IF rq.kind = "PostPubkey" /\ rq.status = 200
    THEN cleared \ {rq.sid}
  ELSE cleared

\* The handler of slot r goes on as rq: rq is kept while it waits at an await,
\* and handed over as the answer when it has returned its response.
Continue(r, rq) ==
  IF rq.pc = "done"
    THEN /\ req' = [req EXCEPT ![r] = IdleReq]
         /\ answered' = rq
         /\ cleared' = ClearedBy(r, rq)
    ELSE /\ req' = [req EXCEPT ![r] = rq]
         /\ answered' = IdleReq
         /\ cleared' = cleared

\* A cookie names any session id; without one, randomUUID() names a fresh id.
Inputs(cookie, uuid) ==
  /\ cookie \in SessionIds \cup {NoCookie}
  /\ IF cookie = NoCookie
       THEN /\ uuid \in SessionIds \ DOMAIN sessions
            /\ \A other \in SessionIds \ DOMAIN sessions : uuid <= other
       ELSE uuid = cookie

\* disconnectSessionClient from its entry to its first await, run for request
\* rq on the session map sess: with no client it returns at once, and the
\* handler resumes after its own await before anything else runs (Resuming);
\* otherwise disconnect() is called on the client and the function waits for
\* it.
EnterDisconnect(r, rq, sess) ==
  LET target == DisconnectTarget(sess[rq.sid])
      entered == [rq EXCEPT !.prev = sess[rq.sid].client, !.target = target]
  IN /\ sessions' = sess
     /\ IF target = NoClient
          THEN /\ Continue(r, [entered EXCEPT !.pc = "resume"])
               /\ clients' = clients
          ELSE /\ Continue(r, [entered EXCEPT !.pc = "disconnect"])
               /\ clients' = [clients EXCEPT ![target].disconnected = TRUE]

ToolOfSwapped(kind) ==
  CASE kind = "Balance" -> "get_balance"
    [] kind = "MakeInvoice" -> "make_invoice"
    [] kind = "PayInvoice" -> "pay_invoice"
    [] kind = "SendEcash" -> "make_invoice"

\* client.<Tool>(...): CashubashClient.call issues one callTool on the client.
ToolOf(kind) ==
  CASE kind = "Balance" -> "get_balance"
    [] kind = "MakeInvoice" -> "make_invoice"
    [] kind = "PayInvoice" -> "pay_invoice"
    [] kind = "SendEcash" -> "send_ecash"

\* The tail every wallet handler shares: ensureSessionClient, 503 without a
\* client, otherwise the remote call and the wait for its result.
ForwardToClient(r, rq, sess, sdkOk) ==
  LET e == ensureSessionClient(sess[rq.sid], sdkOk)
      known == WithCreated(e, rq.sid)
      got == [rq EXCEPT !.made = IF e.created THEN e.client ELSE NoClient,
                        !.createThrew = e.threw]
  IN /\ sessions' = [sess EXCEPT ![rq.sid] = e.context]
     /\ IF e.client = NoClient
          THEN /\ clients' = known
               /\ Continue(r, serviceUnavailable(got,
                                 "Server pubkey not configured"))
          ELSE /\ clients' = [known EXCEPT ![e.client].staleCall =
                                 @ \/ known[e.client].disconnected]
               /\ Continue(r, [got EXCEPT
                                 !.pc = "call",
                                 !.calls = Append(@, [client |-> e.client,
                                                      tool |-> ToolOf(rq.kind)])])

\* --------------------------------------------------------------- handlers
\* GET /api/server-pubkey
GetServerPubkey(r, cookie, uuid) ==
  /\ IsNext(r) /\ Inputs(cookie, uuid)
  /\ arrived' = arrived + 1
  /\ LET h == ensureSession(cookie, uuid)
         ctx == h.sessions[h.id]
         rq == Arrived("GetPubkey", h)
     IN /\ sessions' = h.sessions
        /\ Continue(r, [Answer(rq, 200, "") EXCEPT !.flag = ctx.serverPubkey.defined,
                                          !.answer = ctx.serverPubkey])
  /\ UNCHANGED <<SERVER_PUBKEY, clients>>

\* POST /api/server-pubkey, up to await request.json()
PostServerPubkey(r, cookie, uuid) ==
  /\ IsNext(r) /\ Inputs(cookie, uuid)
  /\ arrived' = arrived + 1
  /\ LET h == ensureSession(cookie, uuid)
     IN /\ sessions' = h.sessions
        /\ Continue(r, [Arrived("PostPubkey", h) EXCEPT !.pc = "json"])
  /\ UNCHANGED <<SERVER_PUBKEY, clients>>

\* POST /api/server-pubkey, from the parsed body to the answer or to the
\* await of disconnectSessionClient
PostServerPubkeyBody(r, body, sdkOk) ==
  /\ ~Resuming
  /\ req[r].kind = "PostPubkey" /\ req[r].pc = "json"
  /\ body \in PubkeyBodies
  /\ LET ctx == sessions[req[r].sid]
         rq == [req[r] EXCEPT !.body = body,
                              !.keyed = ctx.serverPubkey.defined]
         trimmed == trim(body.text)
         e == ensureSessionClient(ctx, sdkOk)
     IN IF ~body.json
          THEN /\ Continue(r, badRequest(rq, "Invalid JSON body"))
               /\ UNCHANGED <<sessions, clients>>
        ELSE IF body.isNull
          THEN /\ Continue(r, internalError(rq))
               /\ UNCHANGED <<sessions, clients>>
        ELSE IF ~body.isString
          THEN /\ Continue(r, badRequest(rq, "serverPubkey must be a string"))
               /\ UNCHANGED <<sessions, clients>>
        ELSE IF trimmed = <<>>
          THEN /\ Continue(r, badRequest(rq, "Server pubkey cannot be empty"))
               /\ UNCHANGED <<sessions, clients>>
        ELSE IF ctx.serverPubkey = Str(trimmed)
          THEN /\ sessions' = [sessions EXCEPT ![rq.sid] = e.context]
               /\ clients' = WithCreated(e, rq.sid)
               /\ Continue(r, [Answer(rq, 200, "") EXCEPT
                        !.flag = TRUE,
                        !.answer = e.context.serverPubkey,
                        !.made = IF e.created THEN e.client ELSE NoClient,
                        !.createThrew = e.threw])
        ELSE EnterDisconnect(r, [rq EXCEPT !.changed = TRUE], sessions)
  /\ UNCHANGED <<SERVER_PUBKEY, arrived>>

\* disconnectSessionClient, from the settling of client.disconnect() to its
\* return: an error is logged and swallowed, the client is forgotten.  Two
\* calls of disconnect() can settle in one turn, and then the continuations
\* of both run before either handler resumes.
DisconnectSettles(r, throws) ==
  /\ ~ResumingAtOnce
  /\ req[r].pc = "disconnect"
  /\ sessions' = [sessions EXCEPT ![req[r].sid] = AfterDisconnect(@)]
  /\ Continue(r, [req[r] EXCEPT !.pc = "resume", !.threw = throws])
  /\ UNCHANGED <<SERVER_PUBKEY, clients, arrived>>

\* POST /api/server-pubkey, after await disconnectSessionClient
PostServerPubkeyResume(r, sdkOk) ==
  /\ req[r].kind = "PostPubkey" /\ req[r].pc = "resume"
  /\ LET rq == req[r]
         trimmed == trim(rq.body.text)
         ctx == [sessions[rq.sid] EXCEPT !.serverPubkey = Str(trimmed)]
         e == ensureSessionClient(ctx, sdkOk)
     IN /\ clients' = WithCreated(e, rq.sid)
        /\ IF e.client = NoClient
             THEN /\ sessions' = [sessions EXCEPT ![rq.sid] =
                        [e.context EXCEPT !.serverPubkey = Undefined]]
                  /\ Continue(r, serviceUnavailable(
                                    [rq EXCEPT !.createThrew = e.threw],
                                    "Failed to configure server pubkey"))
             ELSE /\ sessions' = [sessions EXCEPT ![rq.sid] = e.context]
                  /\ Continue(r, [Answer(rq, 200, "") EXCEPT
                           !.flag = TRUE,
                           !.answer = e.context.serverPubkey,
                           !.made = IF e.created THEN e.client ELSE NoClient])
  /\ UNCHANGED <<SERVER_PUBKEY, arrived>>

\* DELETE /api/server-pubkey, up to the await of disconnectSessionClient
DeleteServerPubkey(r, cookie, uuid) ==
  /\ IsNext(r) /\ Inputs(cookie, uuid)
  /\ arrived' = arrived + 1
  /\ LET h == ensureSession(cookie, uuid)
     IN EnterDisconnect(r, Arrived("DeletePubkey", h), h.sessions)
  /\ UNCHANGED SERVER_PUBKEY

ClearSessionKeepsPubkey(context) == [context EXCEPT !.client = NoClient]

\* context.client = undefined; context.serverPubkey = undefined
ClearSession(context) ==
  [context EXCEPT !.client = NoClient, !.serverPubkey = Undefined]

\* DELETE /api/server-pubkey, after await disconnectSessionClient
DeleteServerPubkeyResume(r) ==
  /\ req[r].kind = "DeletePubkey" /\ req[r].pc = "resume"
  /\ sessions' = [sessions EXCEPT ![req[r].sid] = ClearSession(@)]
  /\ Continue(r, [Answer(req[r], 200, "") EXCEPT !.flag = TRUE])
  /\ UNCHANGED <<SERVER_PUBKEY, clients, arrived>>

\* GET /api/balance, up to await client.GetBalance
GetBalance(r, cookie, uuid, sdkOk) ==
  /\ IsNext(r) /\ Inputs(cookie, uuid)
  /\ arrived' = arrived + 1
  /\ LET h == ensureSession(cookie, uuid)
         rq == [Arrived("Balance", h) EXCEPT
                 !.keyed = h.sessions[h.id].serverPubkey.defined]
     IN ForwardToClient(r, rq, h.sessions, sdkOk)
  /\ UNCHANGED SERVER_PUBKEY

\* POST /api/make-invoice, /api/pay-invoice, /api/send-ecash, up to
\* await request.json()
PostWallet(r, kind, cookie, uuid) ==
  /\ IsNext(r) /\ Inputs(cookie, uuid)
  /\ arrived' = arrived + 1
  /\ kind \in WalletKinds \ {"Balance"}
  /\ LET h == ensureSession(cookie, uuid)
     IN /\ sessions' = h.sessions
        /\ Continue(r, [Arrived(kind, h) EXCEPT !.pc = "json"])
  /\ UNCHANGED <<SERVER_PUBKEY, clients>>

\* The validation of a wallet body: the 400 message, "" when it passes.
Validate(kind, body) ==
  LET badAmount == ~( body.amountType = "number" /\ body.finite
                      /\ body.amount > 0 )
      badOverride == body.amountType = "number"
                     /\ (~body.finite \/ body.amount <= 0)
  IN IF ~body.json THEN "Invalid JSON body"
     ELSE IF kind = "PayInvoice"
       THEN IF ~body.invoice THEN "Invoice is required"
            ELSE IF badOverride THEN "Amount override must be positive"
            ELSE ""
     ELSE IF badAmount THEN "Amount must be a positive number"
     ELSE ""

\* POST /api/make-invoice, /api/pay-invoice, /api/send-ecash, from the parsed
\* body to the answer or to the await of the remote call
PostWalletBody(r, body, sdkOk) ==
  /\ ~Resuming
  /\ req[r].kind \in WalletKinds /\ req[r].pc = "json"
  /\ body \in WalletBodies(req[r].kind)
  /\ LET rq == [req[r] EXCEPT
                 !.body = body,
                 !.keyed = sessions[req[r].sid].serverPubkey.defined]
         problem == Validate(rq.kind, body)
     IN IF body.json /\ body.isNull
          THEN /\ Continue(r, internalError(rq))
               /\ UNCHANGED <<sessions, clients>>
        ELSE IF problem # ""
          THEN /\ Continue(r, badRequest(rq, problem))
               /\ UNCHANGED <<sessions, clients>>
          ELSE ForwardToClient(r, rq, sessions, sdkOk)
  /\ UNCHANGED <<SERVER_PUBKEY, arrived>>

\* The message of a wallet handler's 502 answer.
FailureOf(kind) ==
  CASE kind = "Balance" -> "Failed to fetch balance"
    [] kind = "MakeInvoice" -> "Failed to make invoice"
    [] kind = "PayInvoice" -> "Failed to pay invoice"
    [] kind = "SendEcash" -> "Failed to mint ecash"

\* How client.<Tool>(...) settles.  CashubashClient.call returns the
\* structuredContent of the tool's result, whatever it is:
\*   "throws"        callTool rejects
\*   "unstructured"  it returns no object to read the fields from: no
\*                   structuredContent, or one without `result` where the
\*                   handler destructures it
\*   "empty"         it returns an object that lacks the fields
\*   "full"          it returns an object with the fields
CallOutcomes == { "throws", "unstructured", "empty", "full" }

\* A wallet handler after its await of the remote call: its catch block
\* answers 502 when the call throws and when reading the fields of the
\* result throws a TypeError; otherwise it answers 200 with the fields the
\* result has.
CallSettles(r, outcome) ==
  /\ ~Resuming
  /\ req[r].pc = "call"
  /\ outcome \in CallOutcomes
  /\ LET rq == [req[r] EXCEPT !.threw = outcome = "throws",
                              !.result = IF outcome = "throws"
                                           THEN "" ELSE outcome]
     IN Continue(r, IF outcome \in {"throws", "unstructured"}
                       THEN Answer(rq, 502, FailureOf(rq.kind))
                       ELSE Answer(rq, 200, ""))
  /\ UNCHANGED <<SERVER_PUBKEY, sessions, clients, arrived>>

\* ------------------------------------------------------- the gateway's spec
GwInit ==
  /\ SERVER_PUBKEY \in {Undefined} \cup { Str(t) : t \in EnvStrings }
  /\ sessions = <<>>
  /\ clients = <<>>
  /\ req = [r \in ReqIds |-> IdleReq]
  /\ arrived = 0
  /\ answered = IdleReq
  /\ cleared = {}

GwNext ==
  \/ \E r \in ReqIds, cookie \in SessionIds \cup {NoCookie}, uuid \in SessionIds :
        \/ GetServerPubkey(r, cookie, uuid)
        \/ PostServerPubkey(r, cookie, uuid)
        \/ DeleteServerPubkey(r, cookie, uuid)
        \/ \E sdkOk \in BOOLEAN : GetBalance(r, cookie, uuid, sdkOk)
        \/ \E kind \in WalletKinds : PostWallet(r, kind, cookie, uuid)
  \/ \E r \in ReqIds, sdkOk \in BOOLEAN :
        \/ \E body \in PubkeyBodies : PostServerPubkeyBody(r, body, sdkOk)
        \/ PostServerPubkeyResume(r, sdkOk)
        \/ \E body \in WalletBodies("PayInvoice") : PostWalletBody(r, body, sdkOk)
  \/ \E r \in ReqIds :
        \/ \E throws \in BOOLEAN : DisconnectSettles(r, throws)
        \/ DeleteServerPubkeyResume(r)
        \/ \E outcome \in CallOutcomes : CallSettles(r, outcome)

\* ------------------------------------------------ src/unnamed/part_000
\* A scan is one run of scanInvoiceOnce past its construction of a scanner:
\*   settled   the closure's flag
\*   outcome   the promise: "pending", "resolved" or "rejected"
\*   reason    the error rejectOnce was given, "" if none
\*   via       the settling function running finish(): "resolve", "reject"
\*   camera    the Html5Qrcode instance: "starting" once start() is called,
\*             "running" when start() has resolved, "failed" when it has
\*             rejected, "closing" once stop() is called on a running camera,
\*             "stopped" when that stop() has resolved
\*   release   releaseScanner: "none", "stopping" (awaits stop()),
\*             "clearing" (awaits clear()), "released" (returned)
\*   ignored   whether a settling function has returned at its `if (settled)`
\*   value     the text resolveOnce was given
\*   cancelled whether the scan's cancel function has rejected it
NoScan == 0

CallIds == 1..MaxCalls

ScanIds == 1..Len(scans)

\* A call of one of the module's functions: which (op), where it waits (pc),
\* the scan whose cancel function it awaits, and the reason it was given.
IdleCall == [op |-> "none", pc |-> "idle", scan |-> NoScan, reason |-> ""]

NewScan ==
  [ settled |-> FALSE, outcome |-> "pending", reason |-> "", via |-> "",
    camera |-> "starting", release |-> "none", ignored |-> FALSE,
    value |-> <<>>, cancelled |-> FALSE ]

Reasons == { "", "Navigated away" }

\* What scanner.start() rejects with: an Error, a string, or another value.
StartErrors ==
  { [kind |-> "Error", message |-> "NotAllowedError: Permission denied"],
    [kind |-> "Error", message |-> "Scan cancelled"],
    [kind |-> "string", message |-> "Camera streaming not supported"],
    [kind |-> "other", message |-> ""] }

\* The message of the Error the catch handler of start() rejects with
StartFailure(error) ==
  IF error.kind = "Error"
    THEN error.message
  ELSE IF error.kind = "string"
    THEN error.message
  ELSE "Failed to start scanner"

\* What the camera decodes: a text, or blanks.
DecodedTexts == { <<"l">>, <<" ">> }

\* Html5Qrcode.stop(): it stops a running camera and throws on any other.
StopCalled(camera) == IF camera = "running" THEN "closing" ELSE camera

StopSettled(camera) == IF camera = "closing" THEN "stopped" ELSE camera

\* finish(), up to the await of scanner.stop() in releaseScanner
finish(k, all) ==
  [all EXCEPT ![k].release = "stopping",
              ![k].camera = StopCalled(@)]

\* rejectOnce(error) of scan k, up to its await of finish(): the scans
\* afterwards; a settled scan is left alone.
rejectOnce(k, error) ==
  IF scans[k].settled
    THEN [scans EXCEPT ![k].ignored = TRUE]
    ELSE finish(k, [scans EXCEPT ![k].settled = TRUE, ![k].via = "reject",
                                 ![k].reason = error])

resolveOnceUnguarded(k, value) ==
  finish(k, [scans EXCEPT ![k].settled = TRUE, ![k].via = "resolve",
                          ![k].value = value])

\* resolveOnce(value) of scan k, up to its await of finish()
resolveOnce(k, value) ==
  IF scans[k].settled
    THEN [scans EXCEPT ![k].ignored = TRUE]
    ELSE finish(k, [scans EXCEPT ![k].settled = TRUE, ![k].via = "resolve",
                                 ![k].value = value])

\* What a settling function that was not settled before leaves in the
\* module's variables: activeCancel = null, and activeScanner = null (finish).
Settling(k) ==
  IF scans[k].settled
    THEN UNCHANGED <<activeScanner, activeCancel>>
    ELSE activeCancel' = NoScan /\ activeScanner' = NoScan

CancelReasonIgnored(reason) == "Scan cancelled"

\* reason ?? new Error("Scan cancelled"); "" stands for no reason given
CancelReason(reason) == IF reason = "" THEN "Scan cancelled" ELSE reason

\* cancelInvoiceScan(reason), up to its await of cancel(): with no
\* activeCancel it returns, and its caller resumes after its own await;
\* otherwise it clears activeCancel and runs the scan's cancel function,
\* which is rejectOnce.
cancelInvoiceScan(c, op, reason) ==
  LET returned == [op |-> op, pc |-> "resume", scan |-> NoScan,
                   reason |-> reason]
  IN IF activeCancel = NoScan
       THEN /\ calls' = [calls EXCEPT ![c] = returned]
            /\ UNCHANGED <<activeScanner, activeCancel, scans>>
     ELSE IF scans[activeCancel].settled
       THEN /\ calls' = [calls EXCEPT ![c] = returned]
            /\ activeCancel' = NoScan
            /\ UNCHANGED <<activeScanner, scans>>
     ELSE /\ calls' = [calls EXCEPT ![c] =
                [op |-> op, pc |-> "cancelling", scan |-> activeCancel,
                 reason |-> reason]]
          /\ scans' = [rejectOnce(activeCancel, CancelReason(reason))
                         EXCEPT ![activeCancel].cancelled = TRUE]
          /\ activeCancel' = NoScan
          /\ activeScanner' = NoScan

FreeCall(c) ==
  /\ calls[c].pc = "idle"
  /\ \A d \in CallIds : d < c => calls[d].pc # "idle"

\* A call of cancelInvoiceScan(reason) from outside the module
CancelInvoiceScan(c, reason) ==
  /\ FreeCall(c)
  /\ cancelInvoiceScan(c, "cancel", reason)
  /\ UNCHANGED gwVars

\* A call of scanInvoiceOnce, up to await cancelInvoiceScan(...)
ScanInvoiceOnce(c) ==
  /\ FreeCall(c)
  /\ Len(scans) + Cardinality({ d \in CallIds : calls[d].op = "scan" })
       < MaxScans
  /\ cancelInvoiceScan(c, "scan", "Interrupt previous scan")
  /\ UNCHANGED gwVars

\* The cancel a call waits for has returned: the scan it cancelled was
\* settled before, or has been released and rejected since.
CancelDone(c) ==
  /\ calls[c].pc = "cancelling"
  /\ scans[calls[c].scan].outcome # "pending"

\* cancelInvoiceScan returns to its caller
CancelReturns(c) ==
  /\ calls[c].op = "cancel"
  /\ calls[c].pc = "resume" \/ CancelDone(c)
  /\ calls' = [calls EXCEPT ![c] = IdleCall]
  /\ UNCHANGED <<activeScanner, activeCancel, scans>>
  /\ UNCHANGED gwVars

\* scanInvoiceOnce after await cancelInvoiceScan(...): it constructs the
\* scanner, publishes it and its cancel function, calls start() and returns
\* the promise
ScanStarts(c) ==
  /\ calls[c].op = "scan"
  /\ calls[c].pc = "resume" \/ CancelDone(c)
  /\ scans' = Append(scans, NewScan)
  /\ activeScanner' = Len(scans) + 1
  /\ activeCancel' = Len(scans) + 1
  /\ calls' = [calls EXCEPT ![c] = IdleCall]
  /\ UNCHANGED gwVars

\* scanner.start() resolves: the camera runs
StartResolves(k) ==
  /\ k \in ScanIds
  /\ scans[k].camera = "starting"
  /\ scans' = [scans EXCEPT ![k].camera = "running"]
  /\ UNCHANGED <<activeScanner, activeCancel, calls>>
  /\ UNCHANGED gwVars

\* scanner.start() rejects: the catch handler runs rejectOnce(failure)
StartRejects(k, error) ==
  /\ k \in ScanIds
  /\ error \in StartErrors
  /\ scans[k].camera = "starting"
  /\ scans' = [rejectOnce(k, StartFailure(error)) EXCEPT
                 ![k].camera = "failed"]
  /\ Settling(k)
  /\ UNCHANGED calls
  /\ UNCHANGED gwVars

\* The running camera decodes a code: the callback runs resolveOnce(text)
Decoded(k, text) ==
  /\ k \in ScanIds
  /\ text \in DecodedTexts
  /\ scans[k].camera = "running"
  /\ scans' = resolveOnce(k, text)
  /\ Settling(k)
  /\ UNCHANGED calls
  /\ UNCHANGED gwVars

\* releaseScanner after await scanner.stop(): it calls scanner.clear()
StopSettles(k) ==
  /\ k \in ScanIds
  /\ scans[k].release = "stopping"
  /\ scans' = [scans EXCEPT ![k].release = "clearing",
                             ![k].camera = StopSettled(@)]
  /\ UNCHANGED <<activeScanner, activeCancel, calls>>
  /\ UNCHANGED gwVars

\* releaseScanner after await scanner.clear(): it returns
ClearSettles(k) ==
  /\ k \in ScanIds
  /\ scans[k].release = "clearing"
  /\ scans' = [scans EXCEPT ![k].release = "released"]
  /\ UNCHANGED <<activeScanner, activeCancel, calls>>
  /\ UNCHANGED gwVars

\* resolveOnce / rejectOnce after await finish(): the promise is settled
PromiseSettles(k) ==
  /\ k \in ScanIds
  /\ scans[k].release = "released"
  /\ scans[k].outcome = "pending"
  /\ scans' = [scans EXCEPT ![k].outcome =
                 IF scans[k].via = "resolve" THEN "resolved" ELSE "rejected"]
  /\ UNCHANGED <<activeScanner, activeCancel, calls>>
  /\ UNCHANGED gwVars

ScInit ==
  /\ activeScanner = NoScan
  /\ activeCancel = NoScan
  /\ scans = <<>>
  /\ calls = [c \in CallIds |-> IdleCall]

ScNext ==
  \/ \E c \in CallIds :
        \/ \E reason \in Reasons : CancelInvoiceScan(c, reason)
        \/ ScanInvoiceOnce(c)
        \/ CancelReturns(c)
        \/ ScanStarts(c)
  \/ \E k \in 1..MaxScans :
        \/ StartResolves(k)
        \/ \E error \in StartErrors : StartRejects(k, error)
        \/ \E text \in DecodedTexts : Decoded(k, text)
        \/ StopSettles(k)
        \/ ClearSettles(k)
        \/ PromiseSettles(k)


\* ------------------- src/src/wallet-frontend.ts: polling, gate, exit flow
\* The page after init(): its elements are all present.  A handler runs
\* without interruption from one await to the next; every request of the
\* page is answered by the gateway, or fails in the network.  Toasts, the
\* hint under the pubkey field, the labels of buttons, the focus and the
\* outputs of the wallet forms are written and never read: they are left
\* out.  In a text "..." stands for the ellipsis character.
VARIABLES
  page,      \* the variables of the module and the elements of the document
  fetches,   \* the handlers that wait for an answer: slot -> its position
  handled    \* the answer handled by the last step

pgVars == <<page, fetches, handled>>

FetchIds == 1..MaxFetches

TimerIds == 1..MaxTimers

\* What the user can type into the pubkey field.
PageStrings == { <<>>, <<"a">> }

Balances == { 1 }

WalletForms == { "MakeInvoice", "PayInvoice", "SendEcash" }

\* ------------------------------------------------------------- messages
\* The text of every message an Error of the page can carry, character by
\* character.
Text ==
  "Invalid JSON body" :>
       <<"I", "n", "v", "a", "l", "i", "d", " ", "J", "S", "O", "N",
         " ", "b", "o", "d", "y">>
  @@ "serverPubkey must be a string" :>
       <<"s", "e", "r", "v", "e", "r", "P", "u", "b", "k", "e", "y",
         " ", "m", "u", "s", "t", " ", "b", "e", " ", "a", " ", "s",
         "t", "r", "i", "n", "g">>
  @@ "Server pubkey cannot be empty" :>
       <<"S", "e", "r", "v", "e", "r", " ", "p", "u", "b", "k", "e",
         "y", " ", "c", "a", "n", "n", "o", "t", " ", "b", "e", " ",
         "e", "m", "p", "t", "y">>
  @@ "Failed to configure server pubkey" :>
       <<"F", "a", "i", "l", "e", "d", " ", "t", "o", " ", "c", "o",
         "n", "f", "i", "g", "u", "r", "e", " ", "s", "e", "r", "v",
         "e", "r", " ", "p", "u", "b", "k", "e", "y">>
  @@ "Server pubkey not configured" :>
       <<"S", "e", "r", "v", "e", "r", " ", "p", "u", "b", "k", "e",
         "y", " ", "n", "o", "t", " ", "c", "o", "n", "f", "i", "g",
         "u", "r", "e", "d">>
  @@ "Failed to fetch balance" :>
       <<"F", "a", "i", "l", "e", "d", " ", "t", "o", " ", "f", "e",
         "t", "c", "h", " ", "b", "a", "l", "a", "n", "c", "e">>
  @@ "Failed to make invoice" :>
       <<"F", "a", "i", "l", "e", "d", " ", "t", "o", " ", "m", "a",
         "k", "e", " ", "i", "n", "v", "o", "i", "c", "e">>
  @@ "Failed to pay invoice" :>
       <<"F", "a", "i", "l", "e", "d", " ", "t", "o", " ", "p", "a",
         "y", " ", "i", "n", "v", "o", "i", "c", "e">>
  @@ "Failed to mint ecash" :>
       <<"F", "a", "i", "l", "e", "d", " ", "t", "o", " ", "m", "i",
         "n", "t", " ", "e", "c", "a", "s", "h">>
  @@ "Amount must be a positive number" :>
       <<"A", "m", "o", "u", "n", "t", " ", "m", "u", "s", "t", " ",
         "b", "e", " ", "a", " ", "p", "o", "s", "i", "t", "i", "v",
         "e", " ", "n", "u", "m", "b", "e", "r">>
  @@ "Invoice is required" :>
       <<"I", "n", "v", "o", "i", "c", "e", " ", "i", "s", " ", "r",
         "e", "q", "u", "i", "r", "e", "d">>
  @@ "Amount override must be positive" :>
       <<"A", "m", "o", "u", "n", "t", " ", "o", "v", "e", "r", "r",
         "i", "d", "e", " ", "m", "u", "s", "t", " ", "b", "e", " ",
         "p", "o", "s", "i", "t", "i", "v", "e">>
  @@ "Request failed" :>
       <<"R", "e", "q", "u", "e", "s", "t", " ", "f", "a", "i", "l",
         "e", "d">>
  @@ "Scan cancelled" :>
       <<"S", "c", "a", "n", " ", "c", "a", "n", "c", "e", "l", "l",
         "e", "d">>
  @@ "Interrupt previous scan" :>
       <<"I", "n", "t", "e", "r", "r", "u", "p", "t", " ", "p", "r",
         "e", "v", "i", "o", "u", "s", " ", "s", "c", "a", "n">>
  @@ "NotAllowedError: Permission denied" :>
       <<"N", "o", "t", "A", "l", "l", "o", "w", "e", "d", "E", "r",
         "r", "o", "r", ":", " ", "P", "e", "r", "m", "i", "s", "s",
         "i", "o", "n", " ", "d", "e", "n", "i", "e", "d">>
  @@ "Camera streaming not supported" :>
       <<"C", "a", "m", "e", "r", "a", " ", "s", "t", "r", "e", "a",
         "m", "i", "n", "g", " ", "n", "o", "t", " ", "s", "u", "p",
         "p", "o", "r", "t", "e", "d">>
  @@ "Failed to start scanner" :>
       <<"F", "a", "i", "l", "e", "d", " ", "t", "o", " ", "s", "t",
         "a", "r", "t", " ", "s", "c", "a", "n", "n", "e", "r">>
  @@ "Failed to fetch" :>
       <<"F", "a", "i", "l", "e", "d", " ", "t", "o", " ", "f", "e",
         "t", "c", "h">>
  @@ "Unexpected end of JSON input" :>
       <<"U", "n", "e", "x", "p", "e", "c", "t", "e", "d", " ", "e",
         "n", "d", " ", "o", "f", " ", "J", "S", "O", "N", " ", "i",
         "n", "p", "u", "t">>
  @@ "Cannot read properties of undefined" :>
       <<"C", "a", "n", "n", "o", "t", " ", "r", "e", "a", "d", " ",
         "p", "r", "o", "p", "e", "r", "t", "i", "e", "s", " ", "o",
         "f", " ", "u", "n", "d", "e", "f", "i", "n", "e", "d">>
  @@ "The amount of data is too big to be stored in a QR Code" :>
       <<"T", "h", "e", " ", "a", "m", "o", "u", "n", "t", " ", "o",
         "f", " ", "d", "a", "t", "a", " ", "i", "s", " ", "t", "o",
         "o", " ", "b", "i", "g", " ", "t", "o", " ", "b", "e", " ",
         "s", "t", "o", "r", "e", "d", " ", "i", "n", " ", "a", " ",
         "Q", "R", " ", "C", "o", "d", "e">>

\* String.prototype.toLowerCase, on the letters the messages use.
LowerOf ==
  "A" :> "a" @@ "B" :> "b" @@ "C" :> "c" @@ "D" :> "d" @@ "E" :> "e"
  @@ "F" :> "f" @@ "G" :> "g" @@ "H" :> "h" @@ "I" :> "i"
  @@ "J" :> "j" @@ "K" :> "k" @@ "L" :> "l" @@ "M" :> "m"
  @@ "N" :> "n" @@ "O" :> "o" @@ "P" :> "p" @@ "Q" :> "q"
  @@ "R" :> "r" @@ "S" :> "s" @@ "T" :> "t" @@ "U" :> "u"
  @@ "V" :> "v" @@ "W" :> "w" @@ "X" :> "x" @@ "Y" :> "y"
  @@ "Z" :> "z"

\* The text isPubkeyMissingError looks for.
Needle ==
  <<"s", "e", "r", "v", "e", "r", " ", "p", "u", "b", "k", "e", "y",
    " ", "n", "o", "t", " ", "c", "o", "n", "f", "i", "g", "u", "r",
    "e", "d">>

\* String.prototype.toLowerCase
toLowerCase(s) ==
  [i \in 1..Len(s) |-> IF s[i] \in DOMAIN LowerOf THEN LowerOf[s[i]] ELSE s[i]]

\* String.prototype.includes
includes(s, sub) ==
  \E i \in 1..(Len(s) - Len(sub) + 1) : SubSeq(s, i, i + Len(sub) - 1) = sub

isPubkeyMissingErrorCaseSensitive(message) == includes(Text[message], Needle)

\* isPubkeyMissingError(error), for an Error with the given message
isPubkeyMissingError(message) ==
  includes(toLowerCase(Text[message]), Needle)

\* ------------------------------------------------------------- answers
\* An answer as api() sees it: the status (0 when fetch itself fails),
\* whether the body is JSON, its message, its boolean field (hasServerPubkey,
\* configured or cleared), its serverPubkey (<<>> when it is missing), its
\* balance, and whether the body has the field the handler reads a property
\* of (balance, preimage, sentAmount).
NetworkFailure ==
  [ status |-> 0, json |-> FALSE, message |-> "", flag |-> FALSE,
    text |-> <<>>, balance |-> 0, complete |-> FALSE ]

\* A 2xx answer whose body is not JSON.
NotJson == [NetworkFailure EXCEPT !.status = 200]

\* The route a handler of the page calls.
RouteOf(kind) ==
  CASE kind = "bootstrap" -> "GetPubkey"
    [] kind = "submit" -> "PostPubkey"
    [] kind = "exit" -> "DeletePubkey"
    [] kind = "balance" -> "Balance"
    [] OTHER -> kind

\* The status and message of every answer the gateway gives on a route.
GatewayAnswers(route) ==
  LET of(rq) == [status |-> rq.status, message |-> rq.message]
      ok == of(Answer(IdleReq, 200, ""))
      thrown == of(internalError(IdleReq))
  IN IF route \in {"GetPubkey", "DeletePubkey"}
       THEN { ok }
     ELSE IF route = "PostPubkey"
       THEN { ok, thrown,
              of(badRequest(IdleReq, "Invalid JSON body")),
              of(badRequest(IdleReq, "serverPubkey must be a string")),
              of(badRequest(IdleReq, "Server pubkey cannot be empty")),
              of(serviceUnavailable(IdleReq,
                                    "Failed to configure server pubkey")) }
     ELSE { ok,
            of(serviceUnavailable(IdleReq, "Server pubkey not configured")),
            of(Answer(IdleReq, 502, FailureOf(route))) }
          \cup IF route = "Balance"
                 THEN {}
                 ELSE { thrown }
                      \cup { of(badRequest(IdleReq, Validate(route, b))) :
                               b \in { c \in WalletBodies(route) :
                                         Validate(route, c) # "" } }

\* The fields of a 200 answer on a route.  jsonResponse leaves out a field
\* whose value is undefined: the serverPubkey of a session without one, and
\* the fields of a remote result that lacks them.
Payloads(route) ==
  LET fields(flag, text, balance, complete) ==
        [ flag |-> flag, text |-> text, balance |-> balance,
          complete |-> complete ]
  IN IF route = "GetPubkey"
       THEN { fields(FALSE, <<>>, 0, TRUE), fields(TRUE, <<"a">>, 0, TRUE) }
     ELSE IF route = "PostPubkey"
       THEN { fields(TRUE, <<"a">>, 0, TRUE), fields(TRUE, <<>>, 0, TRUE) }
     ELSE IF route = "DeletePubkey"
       THEN { fields(TRUE, <<>>, 0, TRUE) }
     ELSE IF route = "Balance"
       THEN { fields(FALSE, <<>>, n, TRUE) : n \in Balances }
            \cup { fields(FALSE, <<>>, 0, FALSE) }
     ELSE { fields(FALSE, <<>>, 0, c) : c \in BOOLEAN }

\* The page sends bodies that pass the gateway's validation: a trimmed
\* pubkey that is not empty, a finite positive amount, an invoice that is not
\* empty.  The gateway answers them with 200, 502 or 503.
PageAnswers(route) ==
  { g \in GatewayAnswers(route) : g.status \in {200, 502, 503} }

\* What a request of the page can come back with: a failure of the network,
\* a 2xx answer that is not JSON, a 200 answer, or one of the gateway's other
\* answers.
AnswersTo(route) ==
  { NetworkFailure, NotJson }
  \cup { [ status |-> g.status, json |-> TRUE,
           message |-> g.message, flag |-> p.flag, text |-> p.text,
           balance |-> p.balance, complete |-> p.complete ] :
           g \in { x \in PageAnswers(route) : x.status = 200 },
           p \in Payloads(route) }
  \cup { [NetworkFailure EXCEPT !.status = g.status,
                                !.json = TRUE,
                                !.message = g.message] :
           g \in { x \in PageAnswers(route) : x.status # 200 } }

Routes ==
  { "GetPubkey", "PostPubkey", "DeletePubkey", "Balance" } \cup WalletForms

AnswersOf == [route \in Routes |-> AnswersTo(route)]

Answers(route) == AnswersOf[route]

\* api(): whether it returns, and the message of the Error it throws: the
\* rejection of fetch, the message of an answer that is not ok ('Request
\* failed' without one), or the SyntaxError of response.json() on an ok
\* answer that is not JSON.
api(a) ==
  IF a.status = 0
    THEN [ok |-> FALSE, message |-> "Failed to fetch"]
  ELSE IF a.status \in 200..299
    THEN IF a.json
           THEN [ok |-> TRUE, message |-> ""]
           ELSE [ok |-> FALSE, message |-> "Unexpected end of JSON input"]
  ELSE [ok |-> FALSE,
        message |-> IF a.json /\ a.message # ""
                      THEN a.message ELSE "Request failed"]

\* The handlers that read a property of a field of the answer:
\* data.balance.toLocaleString(), result.preimage.slice(0, 18),
\* result.sentAmount.toLocaleString().
ReadsField == { "balance", "PayInvoice", "SendEcash" }

\* The try block of a handler from its await of api() to its use of the
\* answer: whether it runs through, and the message of the Error thrown: that
\* of api(), or the TypeError of reading a property of a missing field.
Attempt(kind, a) ==
  IF api(a).ok /\ kind \in ReadsField /\ ~a.complete
    THEN [ok |-> FALSE, message |-> "Cannot read properties of undefined"]
    ELSE api(a)

\* ------------------------------------------------------------ functions
showStatus(p, message, isError) ==
  [p EXCEPT !.statusLine = [text |-> message, isError |-> isError]]

\* setPubkeyError(message); "" stands for null
setPubkeyError(p, message) == [p EXCEPT !.pubkeyError = message]

setPubkeyFormDisabled(p, disabled) == [p EXCEPT !.formDisabled = disabled]

stopBalancePolling(p) ==
  [p EXCEPT !.timers = @ \ {p.balanceIntervalId},
            !.balanceIntervalId = 0,
            !.balanceSyncEnabled = FALSE]

showPubkeyGateKeepsPolling(p) ==
  setPubkeyError(setPubkeyFormDisabled([p EXCEPT !.gate = "shown"], FALSE), "")

showPubkeyGate(p) ==
  setPubkeyError(
    setPubkeyFormDisabled([stopBalancePolling(p) EXCEPT !.gate = "shown"],
                          FALSE),
    "")

hidePubkeyGate(p) == setPubkeyError([p EXCEPT !.gate = "hidden"], "")

\* The id window.setInterval returns: one that names no registered timer.
NewTimer(p) ==
  CHOOSE t \in TimerIds \ p.timers : \A u \in TimerIds \ p.timers : t <= u

startBalancePollingUnguarded(p) ==
  [ page |-> [p EXCEPT !.balanceSyncEnabled = TRUE,
                       !.balanceIntervalId = NewTimer(p),
                       !.timers = @ \cup {NewTimer(p)}],
    sent |-> TRUE ]

\* startBalancePolling(): the page afterwards, and whether its call of
\* updateBalance() has sent a request.
startBalancePolling(p) ==
  IF p.balanceIntervalId # 0
    THEN [page |-> [p EXCEPT !.balanceSyncEnabled = TRUE], sent |-> FALSE]
    ELSE [ page |-> [p EXCEPT !.balanceSyncEnabled = TRUE,
                              !.balanceIntervalId = NewTimer(p),
                              !.timers = @ \cup {NewTimer(p)}],
           sent |-> TRUE ]

\* handleMissingPubkey(error): the page afterwards and the value returned.
handleMissingPubkey(p, message) ==
  IF ~isPubkeyMissingError(message)
    THEN [page |-> p, missing |-> FALSE]
    ELSE [ page |-> setPubkeyError(showPubkeyGate(p),
                                   "Server pubkey required to continue"),
           missing |-> TRUE ]

\* hideExitOverlay()
hideExitOverlay(p) ==
  [p EXCEPT !.exitOverlayHidden = TRUE, !.exitConfirmDisabled = FALSE,
            !.exitWarned = FALSE]

\* ------------------------------------------------------------- handlers
IdleFetch == [kind |-> "none", pc |-> "idle"]

Fetching(kind) == [kind |-> kind, pc |-> "fetch"]

FreeFetch(f) ==
  /\ fetches[f].pc = "idle"
  /\ \A g \in FetchIds : g < f => fetches[g].pc # "idle"

\* The answer a step handles: the handler, whether polling ran before, the
\* gateway's status, whether the handler's try block ran through to its use
\* of the answer, and the boolean field of the answer.
IdleHandled ==
  [ kind |-> "none", polling |-> FALSE, status |-> 0, ok |-> FALSE,
    flag |-> FALSE ]

Handling(kind, a) ==
  [ kind |-> kind, polling |-> page.balanceIntervalId # 0,
    status |-> a.status, ok |-> Attempt(kind, a).ok, flag |-> a.flag ]

\* updateBalance(), up to its await of api(): the handler of slot f goes on
\* as a balance request if balanceSyncEnabled, and has returned otherwise.
updateBalance(p, f) ==
  fetches' = [fetches EXCEPT ![f] = IF p.balanceSyncEnabled
                                     THEN Fetching("balance") ELSE IdleFetch]

\* The interval timer t fires: updateBalance()
Tick(t, f) ==
  /\ t \in page.timers
  /\ page.balanceSyncEnabled
  /\ FreeFetch(f)
  /\ updateBalance(page, f)
  /\ handled' = IdleHandled
  /\ UNCHANGED page

\* updateBalance() after its await of api()
BalanceAnswers(f, a) ==
  /\ fetches[f] = Fetching("balance")
  /\ a \in Answers("Balance")
  /\ LET r == Attempt("balance", a)
         m == handleMissingPubkey(page, r.message)
     IN /\ page' = IF r.ok
                     THEN showStatus([page EXCEPT !.balanceDisplay = a.balance],
                                     "Balance synced", FALSE)
                   ELSE IF m.missing
                     THEN m.page
                   ELSE showStatus(page, "Failed to fetch balance", TRUE)
        /\ handled' = Handling("balance", a)
  /\ fetches' = [fetches EXCEPT ![f] = IdleFetch]

\* bootstrapPubkeyStatus() after its await of api()
BootstrapAnswers(f, a) ==
  /\ fetches[f] = Fetching("bootstrap")
  /\ a \in Answers("GetPubkey")
  /\ Cardinality(page.timers) < MaxTimers
  /\ LET r == api(a)
         filled == [page EXCEPT !.pubkeyValue = a.text]
         s == startBalancePolling(
                showStatus(hidePubkeyGate(filled), "Syncing wallet...", FALSE))
     IN /\ handled' = Handling("bootstrap", a)
        /\ IF r.ok /\ a.flag
             THEN /\ page' = s.page
                  /\ fetches' = [fetches EXCEPT ![f] =
                       IF s.sent THEN Fetching("balance") ELSE IdleFetch]
           ELSE IF r.ok
             THEN /\ page' = showStatus(showPubkeyGate(filled),
                                        "Awaiting server pubkey...", FALSE)
                  /\ fetches' = [fetches EXCEPT ![f] = IdleFetch]
           ELSE /\ page' = showStatus(
                             setPubkeyError(showPubkeyGate(page),
                                            "Unable to verify server status"),
                             "Failed to load wallet configuration", TRUE)
                /\ fetches' = [fetches EXCEPT ![f] = IdleFetch]

\* The user edits the pubkey field
TypePubkey(v) ==
  /\ ~page.formDisabled
  /\ v \in PageStrings \ {page.pubkeyValue}
  /\ page' = [page EXCEPT !.pubkeyValue = v]
  /\ handled' = IdleHandled
  /\ UNCHANGED fetches

\* The submit handler of the pubkey form, up to its await of api()
Submit(f) ==
  /\ ~page.formDisabled
  /\ LET candidate == trim(page.pubkeyValue)
     IN IF candidate = <<>>
          THEN /\ page' = setPubkeyError(page, "Server pubkey is required")
               /\ UNCHANGED fetches
          ELSE /\ FreeFetch(f)
               /\ page' = setPubkeyFormDisabled(setPubkeyError(page, ""), TRUE)
               /\ fetches' = [fetches EXCEPT ![f] = Fetching("submit")]
  /\ handled' = IdleHandled

\* The submit handler of the pubkey form after its await of api()
SubmitAnswers(f, a) ==
  /\ fetches[f] = Fetching("submit")
  /\ a \in Answers("PostPubkey")
  /\ Cardinality(page.timers) < MaxTimers
  /\ LET r == api(a)
         message == IF r.ok THEN "Server pubkey rejected" ELSE r.message
         s == startBalancePolling(
                showStatus(hidePubkeyGate(page), "Syncing wallet...", FALSE))
     IN /\ handled' = Handling("submit", a)
        /\ IF r.ok /\ a.flag
             THEN /\ page' = setPubkeyFormDisabled(s.page, FALSE)
                  /\ fetches' = [fetches EXCEPT ![f] =
                       IF s.sent THEN Fetching("balance") ELSE IdleFetch]
             ELSE /\ page' = setPubkeyFormDisabled(
                               showStatus(setPubkeyError(page, message),
                                          "Server pubkey error", TRUE),
                               FALSE)
                  /\ fetches' = [fetches EXCEPT ![f] = IdleFetch]

\* The submit handler of a wallet form, up to its await of api()
WalletSubmit(kind, f) ==
  /\ kind \in WalletForms
  /\ FreeFetch(f)
  /\ page' = IF kind = "MakeInvoice"
               THEN showStatus(page, "Generating invoice...", FALSE)
               ELSE page
  /\ fetches' = [fetches EXCEPT ![f] = Fetching(kind)]
  /\ handled' = IdleHandled

\* The catch block of a wallet form's submit handler
WalletFailed(p, kind, message) ==
  LET m == handleMissingPubkey(p, message)
  IN IF m.missing THEN m.page
     ELSE IF kind = "MakeInvoice"
       THEN showStatus(p, "Failed to create invoice", TRUE)
     ELSE p

\* The submit handler of a wallet form after its await of api(): up to
\* await renderInvoiceToCanvas (make-invoice), up to await updateBalance()
\* (the others), or through its catch block
WalletAnswers(f, a) ==
  /\ fetches[f].kind \in WalletForms /\ fetches[f].pc = "fetch"
  /\ a \in Answers(fetches[f].kind)
  /\ LET kind == fetches[f].kind
         r == Attempt(kind, a)
     IN /\ handled' = Handling(kind, a)
        /\ IF ~r.ok
             THEN /\ page' = WalletFailed(page, kind, r.message)
                  /\ fetches' = [fetches EXCEPT ![f] = IdleFetch]
           ELSE IF kind = "MakeInvoice"
             THEN /\ fetches' = [fetches EXCEPT ![f].pc = "render"]
                  /\ UNCHANGED page
           ELSE /\ updateBalance(page, f)
                /\ UNCHANGED page

\* The make-invoice handler after await renderInvoiceToCanvas
RenderSettles(f, throws) ==
  /\ fetches[f].pc = "render"
  /\ LET failure == "The amount of data is too big to be stored in a QR Code"
     IN IF throws
          THEN /\ page' = WalletFailed(page, "MakeInvoice", failure)
               /\ fetches' = [fetches EXCEPT ![f] = IdleFetch]
               /\ handled' = [IdleHandled EXCEPT
                                !.kind = "render",
                                !.polling = page.balanceIntervalId # 0,
                                !.status = 200]
          ELSE /\ page' = showStatus(page, "Invoice ready.", FALSE)
               /\ updateBalance(page, f)
               /\ handled' = IdleHandled

\* The click handler of exitButton
ExitClick ==
  /\ page' = showStatus([page EXCEPT !.exitOverlayHidden = FALSE],
                        "Ready to disconnect?", FALSE)
  /\ handled' = IdleHandled
  /\ UNCHANGED fetches

\* The click handler of exitCancelButton
ExitCancelClick ==
  /\ ~page.exitOverlayHidden
  /\ page' = showStatus(hideExitOverlay(page),
                        "Server connection retained", FALSE)
  /\ handled' = IdleHandled
  /\ UNCHANGED fetches

\* The click handler of exitConfirmButton, up to its await of api()
ExitConfirmClick(f) ==
  /\ ~page.exitOverlayHidden
  /\ ~page.exitConfirmDisabled
  /\ FreeFetch(f)
  /\ page' = [page EXCEPT !.exitConfirmDisabled = TRUE]
  /\ fetches' = [fetches EXCEPT ![f] = Fetching("exit")]
  /\ handled' = IdleHandled

\* The click handler of exitConfirmButton after its await of api()
ExitAnswers(f, a) ==
  /\ fetches[f] = Fetching("exit")
  /\ a \in Answers("DeletePubkey")
  /\ LET r == api(a)
         emptied == [stopBalancePolling(page) EXCEPT !.pubkeyValue = <<>>]
     IN /\ handled' = Handling("exit", a)
        /\ page' =
             IF r.ok
               THEN showStatus(
                      setPubkeyError(
                        showPubkeyGate(hideExitOverlay(emptied)),
                        "Server pubkey removed. Insert a new pubkey to continue."),
                      "Awaiting server pubkey...", FALSE)
               ELSE [showStatus([page EXCEPT !.exitWarned = TRUE],
                                "Failed to disconnect server", TRUE)
                       EXCEPT !.exitConfirmDisabled = FALSE]
  /\ fetches' = [fetches EXCEPT ![f] = IdleFetch]

\* The page once init() has returned: bootstrapPubkeyStatus() waits for the
\* answer to GET /api/server-pubkey.
PgInit ==
  /\ page = [ balanceIntervalId |-> 0, timers |-> {},
              balanceSyncEnabled |-> FALSE, gate |-> "initial",
              pubkeyValue |-> <<>>, formDisabled |-> FALSE,
              pubkeyError |-> "",
              statusLine |-> [text |-> "Preparing wallet...", isError |-> FALSE],
              balanceDisplay |-> 0, exitOverlayHidden |-> TRUE,
              exitConfirmDisabled |-> FALSE, exitWarned |-> FALSE ]
  /\ fetches = [f \in FetchIds |->
                  IF f = 1 THEN Fetching("bootstrap") ELSE IdleFetch]
  /\ handled = IdleHandled

PgNext ==
  \/ \E f \in FetchIds :
        \/ \E t \in TimerIds : Tick(t, f)
        \/ \E a \in Answers("Balance") : BalanceAnswers(f, a)
        \/ \E a \in Answers("GetPubkey") : BootstrapAnswers(f, a)
        \/ Submit(f)
        \/ \E a \in Answers("PostPubkey") : SubmitAnswers(f, a)
        \/ \E kind \in WalletForms : WalletSubmit(kind, f)
        \/ \E kind \in WalletForms :
              \E a \in Answers(kind) : WalletAnswers(f, a)
        \/ \E throws \in BOOLEAN : RenderSettles(f, throws)
        \/ ExitConfirmClick(f)
        \/ \E a \in Answers("DeletePubkey") : ExitAnswers(f, a)
  \/ \E v \in PageStrings : TypePubkey(v)
  \/ ExitClick
  \/ ExitCancelClick

\* --------------------------------- src/src/wallet-frontend.ts: the scanner
\* The page is one thread: a click or an event of the camera is handled only
\* when no continuation of a settled promise is waiting to run.  A click
\* handler: which button (kind), where it waits (pc), the call of the scanner
\* module it awaits (call), the scan whose promise a scan click awaits (scan)
\* and how that promise settled (outcome, reason).
UiIds == 1..MaxHandlers

IdleUi ==
  [ kind |-> "none", pc |-> "idle", call |-> 0, scan |-> NoScan,
    outcome |-> "", reason |-> "" ]

FreeUi(h) ==
  /\ ui[h].pc = "idle"
  /\ \A g \in UiIds : g < h => ui[g].pc # "idle"

\* A scan click awaits a promise that has been settled.
Wakes(h) ==
  /\ ui[h].pc = "awaiting"
  /\ scans[ui[h].scan].outcome # "pending"

\* No continuation is waiting to run: every await under way is one of the
\* camera (start, stop, clear).
Quiet ==
  /\ \A c \in CallIds : calls[c].pc # "resume" /\ ~CancelDone(c)
  /\ \A h \in UiIds : ~Wakes(h)
  /\ \A k \in ScanIds :
       ~(scans[k].release = "released" /\ scans[k].outcome = "pending")

\* The call c resumes its caller: it returned without awaiting, or the scan
\* it cancelled is rejected.  reject(error) runs before rejectOnce returns, so
\* the handler that awaits the scan's promise resumes before the caller of
\* cancelInvoiceScan does.
Returns(c) ==
  \/ calls[c].pc = "resume"
  \/ /\ CancelDone(c)
     /\ \A h \in UiIds : ~(Wakes(h) /\ ui[h].scan = calls[c].scan)

\* disableScanner()
disableScanner ==
  /\ scanDisabled' = FALSE
  /\ panelHidden' = TRUE

\* The click handler of scanInvoiceButton, up to the await inside
\* scanInvoiceOnce; a disabled button starts nothing.
ScanClick(h, c) ==
  /\ Quiet /\ FreeUi(h)
  /\ ~scanDisabled
  /\ scanDisabled' = TRUE
  /\ panelHidden' = FALSE
  /\ page' = showStatus(page, "Opening camera...", FALSE)
  /\ ScanInvoiceOnce(c)
  /\ ui' = [ui EXCEPT ![h] = [IdleUi EXCEPT !.kind = "scan", !.pc = "calling",
                                            !.call = c]]
  /\ finished' = IdleUi
  /\ handled' = IdleHandled
  /\ UNCHANGED fetches

\* scanInvoiceOnce returns its promise to the click handler, which awaits it
ScanClickAwaits(h) ==
  /\ ui[h].pc = "calling"
  /\ Returns(ui[h].call)
  /\ ScanStarts(ui[h].call)
  /\ ui' = [ui EXCEPT ![h].pc = "awaiting", ![h].call = 0,
                      ![h].scan = Len(scans) + 1]
  /\ finished' = IdleUi
  /\ handled' = IdleHandled
  /\ UNCHANGED <<scanDisabled, panelHidden, page, fetches>>

\* The catch block of the scan click handler shows the failure unless the
\* message is "Scan cancelled" or includes "Interrupt previous scan".
ScanFailureShown(message) ==
  /\ message # "Scan cancelled"
  /\ ~includes(Text[message], Text["Interrupt previous scan"])

\* The submit listener of payInvoiceForm, run by requestSubmit() with the
\* given text in the invoice field, up to its await of api(); with a blank
\* invoice it returns
SubmitScanned(invoice) ==
  IF trim(invoice) = <<>>
    THEN UNCHANGED fetches
    ELSE \E f \in FetchIds :
            /\ FreeFetch(f)
            /\ fetches' = [fetches EXCEPT ![f] = Fetching("PayInvoice")]

\* The click handler after await scanInvoiceOnce.  With the decoded text the
\* try block fills the invoice field with the trimmed text and calls
\* requestSubmit() if the form has it (requestSubmit), and submit(), which
\* runs no listener, if not; with a rejection the catch block runs.  Then
\* finally, up to its await of cancelInvoiceScan().
ScanClickSettled(h, c, requestSubmit) ==
  /\ Wakes(h)
  /\ FreeCall(c)
  /\ requestSubmit \in BOOLEAN
  /\ IF scans[ui[h].scan].outcome = "resolved"
       THEN /\ page' = showStatus(page, "Invoice scanned", FALSE)
            /\ IF requestSubmit
                 THEN SubmitScanned(trim(scans[ui[h].scan].value))
                 ELSE UNCHANGED fetches
     ELSE IF ScanFailureShown(scans[ui[h].scan].reason)
       THEN /\ page' = showStatus(page, "Scan failed", TRUE)
            /\ UNCHANGED fetches
     ELSE UNCHANGED <<page, fetches>>
  /\ cancelInvoiceScan(c, "cancel", "")
  /\ ui' = [ui EXCEPT ![h].pc = "finally", ![h].call = c,
                      ![h].outcome = scans[ui[h].scan].outcome,
                      ![h].reason = scans[ui[h].scan].reason]
  /\ finished' = IdleUi
  /\ handled' = IdleHandled
  /\ UNCHANGED <<scanDisabled, panelHidden>>
  /\ UNCHANGED gwVars

\* The click handler after await cancelInvoiceScan(): disableScanner()
ScanClickCompletes(h) ==
  /\ ui[h].kind = "scan" /\ ui[h].pc = "finally"
  /\ Returns(ui[h].call)
  /\ CancelReturns(ui[h].call)
  /\ disableScanner
  /\ ui' = [ui EXCEPT ![h] = IdleUi]
  /\ finished' = ui[h]
  /\ handled' = IdleHandled
  /\ UNCHANGED <<page, fetches>>

\* handleCancel, up to its await of cancelInvoiceScan()
handleCancel(h, c) ==
  /\ Quiet /\ FreeUi(h)
  /\ FreeCall(c)
  /\ cancelInvoiceScan(c, "cancel", "")
  /\ ui' = [ui EXCEPT ![h] = [IdleUi EXCEPT !.kind = "cancel",
                                            !.pc = "finally", !.call = c]]
  /\ finished' = IdleUi
  /\ handled' = IdleHandled
  /\ UNCHANGED <<scanDisabled, panelHidden, page, fetches>>
  /\ UNCHANGED gwVars

\* handleCancel after its await: disableScanner(), showStatus
HandleCancelCompletes(h) ==
  /\ ui[h].kind = "cancel" /\ ui[h].pc = "finally"
  /\ Returns(ui[h].call)
  /\ CancelReturns(ui[h].call)
  /\ disableScanner
  /\ page' = showStatus(page, "Scanner closed", FALSE)
  /\ ui' = [ui EXCEPT ![h] = IdleUi]
  /\ finished' = ui[h]
  /\ handled' = IdleHandled
  /\ UNCHANGED fetches

\* An event of the camera, handled by the scanner module
CameraEvent(k) ==
  /\ Quiet
  /\ \/ StartResolves(k)
     \/ \E error \in StartErrors : StartRejects(k, error)
     \/ \E text \in DecodedTexts : Decoded(k, text)
     \/ StopSettles(k)
     \/ ClearSettles(k)
  /\ finished' = IdleUi
  /\ UNCHANGED <<scanDisabled, panelHidden, ui>>
  /\ UNCHANGED pgVars

\* The continuation of a settling function after its await of finish()
SettlingResumes(k) ==
  /\ PromiseSettles(k)
  /\ finished' = IdleUi
  /\ UNCHANGED <<scanDisabled, panelHidden, ui>>
  /\ UNCHANGED pgVars

\* The request the scan click handler submitted is answered: the submit
\* listener of payInvoiceForm after its await of api()
PayInvoiceAnswers(f, a) ==
  /\ Quiet
  /\ fetches[f] = Fetching("PayInvoice")
  /\ WalletAnswers(f, a)
  /\ finished' = IdleUi
  /\ UNCHANGED <<scanDisabled, panelHidden, ui>>
  /\ UNCHANGED scVars
  /\ UNCHANGED gwVars

UiInit ==
  /\ scanDisabled = FALSE
  /\ panelHidden = TRUE
  /\ ui = [h \in UiIds |-> IdleUi]
  /\ finished = IdleUi

UiNext ==
  \/ \E h \in UiIds, c \in CallIds :
        \/ ScanClick(h, c)
        \/ \E requestSubmit \in BOOLEAN :
              ScanClickSettled(h, c, requestSubmit)
        \/ handleCancel(h, c)
  \/ \E h \in UiIds :
        \/ ScanClickAwaits(h)
        \/ ScanClickCompletes(h)
        \/ HandleCancelCompletes(h)
  \/ \E k \in 1..MaxScans :
        \/ CameraEvent(k)
        \/ SettlingResumes(k)
  \/ \E f \in FetchIds :
        \E a \in Answers("PayInvoice") : PayInvoiceAnswers(f, a)

\* ------------------------------------------------------- specifications
vars == <<gwVars, scVars, uiVars, pgVars>>

\* The gateway, with the page left alone.
Init == GwInit /\ ScInit /\ UiInit /\ PgInit

Next == GwNext /\ UNCHANGED scVars /\ UNCHANGED uiVars /\ UNCHANGED pgVars

Spec == Init /\ [][Next]_vars

\* The scanner module under any caller, with the gateway left alone.
ScanInit == Init /\ SERVER_PUBKEY = Undefined

ScanNext == ScNext /\ UNCHANGED uiVars /\ UNCHANGED pgVars

ScanSpec == ScanInit /\ [][ScanNext]_vars

\* The scanner module under the page's scan and cancel buttons, with the
\* pay-invoice request of a decoded scan.
UiSpec == ScanInit /\ [][UiNext]_vars

\* The page's polling, pubkey gate and exit flow, with the gateway and the
\* scanner left alone.
PageNext ==
  PgNext /\ UNCHANGED gwVars /\ UNCHANGED scVars /\ UNCHANGED uiVars

PageSpec == ScanInit /\ [][PageNext]_vars

\* ------------------------------------------------------------------ claims
ClientIds == 1..Len(clients)

\* The request whose handler takes the step: the one answered by it, or else
\* the one whose slot the step changes.
Acting ==
  IF answered'.pc = "done"
    THEN answered'
    ELSE req'[CHOOSE r \in ReqIds : req'[r] # req[r]]

Creates == Len(clients') > Len(clients)

Created == clients'[Len(clients')]

\* C1: a session that holds a cached client holds a client that was created
\* for the session's current serverPubkey.
C1_ClientCreatedForCurrentPubkey ==
  \A s \in DOMAIN sessions :
    sessions[s].client # NoClient =>
      sessions[s].serverPubkey = Str(clients[sessions[s].client].pubkey)

\* C2: a POST /api/server-pubkey that found a pubkey other than the session's
\* and answers 200 leaves the session with the trimmed pubkey of the request
\* and with a client other than the one cached before; disconnect was called
\* on that previous client before the step that creates the new client.
C2_ReconfigurationTearsDown ==
  [][ ( answered'.kind = "PostPubkey" /\ answered'.changed
        /\ answered'.status = 200 ) =>
      LET a == answered'
      IN /\ sessions'[a.sid].serverPubkey = Str(trim(a.body.text))
         /\ sessions'[a.sid].client # NoClient
         /\ a.prev # NoClient =>
              /\ a.target = a.prev
              /\ clients[a.prev].disconnected
              /\ sessions'[a.sid].client # a.prev ]_vars

C2_Witness ==
  /\ answered.kind = "PostPubkey" /\ answered.changed
  /\ answered.status = 200
  /\ answered.prev # NoClient
  /\ answered.made # NoClient

\* C3: every answer to DELETE /api/server-pubkey is 200 with cleared: true,
\* and when it is given the session has neither a serverPubkey nor a client,
\* also when the client's disconnect threw.
C3_DeleteClears ==
  answered.kind = "DeletePubkey" =>
    /\ answered.status = 200
    /\ answered.flag
    /\ ~sessions[answered.sid].serverPubkey.defined
    /\ sessions[answered.sid].client = NoClient

C3_Witness ==
  /\ answered.kind = "DeletePubkey"
  /\ answered.target # NoClient
  /\ answered.threw

\* C4: every client ever created for a session is the client cached in that
\* session or one on which disconnect has been called.
C4_NoClientDroppedWithoutTeardown ==
  \A c \in ClientIds :
    \/ sessions[clients[c].session].client = c
    \/ clients[c].disconnected

\* C5: GET /api/server-pubkey and the creation of a session create no client,
\* even with a default pubkey; a client is created only by a POST
\* /api/server-pubkey or a wallet operation, for a session that had no client
\* and that holds the pubkey the client is created for.
C5_LazyCreation ==
  [][ /\ Acting.kind = "GetPubkey" =>
           /\ ~Creates
           /\ Acting.sid \notin DOMAIN sessions =>
                sessions'[Acting.sid].client = NoClient
      /\ \A s \in DOMAIN sessions' \ DOMAIN sessions :
           /\ sessions'[s].serverPubkey = getDefaultServerPubkey
                \/ Acting.kind \in WalletKinds
           /\ sessions'[s].client # NoClient => Creates
      /\ Creates =>
           /\ Len(clients') = Len(clients) + 1
           /\ Acting.kind \in {"PostPubkey"} \cup WalletKinds
           /\ Created.session = Acting.sid
           /\ Acting.sid \in DOMAIN sessions =>
                sessions[Acting.sid].client = NoClient
           /\ sessions'[Acting.sid].client = Len(clients')
           /\ sessions'[Acting.sid].serverPubkey = Str(Created.pubkey) ]_vars

C5_Witness ==
  /\ answered.kind = "GetPubkey"
  /\ answered.setCookie
  /\ answered.flag
  /\ sessions[answered.sid].client = NoClient

\* C6: no client is created for a session that has one; a session's cached
\* client is removed only by a POST /api/server-pubkey that found another
\* pubkey or by a DELETE; a wallet operation answered 502 leaves the session
\* map and the clients as they were.
C6_CachedClientReused ==
  [][ /\ Creates =>
           ( Acting.sid \in DOMAIN sessions =>
               sessions[Acting.sid].client = NoClient )
      /\ \A s \in DOMAIN sessions :
           ( sessions[s].client # NoClient
             /\ sessions'[s].client # sessions[s].client ) =>
             /\ Acting.sid = s
             /\ \/ Acting.kind = "DeletePubkey"
                \/ Acting.kind = "PostPubkey" /\ Acting.changed
      /\ answered'.status = 502 =>
           /\ answered'.kind \in WalletKinds
           /\ sessions' = sessions
           /\ clients' = clients ]_vars

C6_Witness ==
  /\ answered.kind \in WalletKinds
  /\ answered.status = 502
  /\ answered.made = NoClient
  /\ sessions[answered.sid].client # NoClient
  /\ answered.calls[1].client = sessions[answered.sid].client

\* C7: a step of a request of session s changes no other session's context
\* and adds no other session, and no two sessions hold the same client.
C7_SessionIsolation ==
  [][ /\ \A s \in DOMAIN sessions :
           s # Acting.sid => sessions'[s] = sessions[s]
      /\ DOMAIN sessions' \subseteq DOMAIN sessions \cup {Acting.sid}
      /\ \A s, t \in DOMAIN sessions' :
           ( s # t /\ sessions'[s].client # NoClient ) =>
             sessions'[s].client # sessions'[t].client ]_vars

C7_Witness ==
  \E s, t \in DOMAIN sessions :
    /\ s # t
    /\ sessions[s].client # NoClient
    /\ sessions[t].client # NoClient
    /\ sessions[s].serverPubkey # sessions[t].serverPubkey

AllRequests == { req[r] : r \in ReqIds } \cup {answered}

\* The body of the wallet request a is null: its handler throws on reading
\* the payload.
NullPayload(a) == a.kind # "Balance" /\ a.body.json /\ a.body.isNull

\* The validation of its handler rejects the wallet request a.
FailedValidation(a) ==
  /\ a.kind # "Balance"
  /\ ~NullPayload(a)
  /\ Validate(a.kind, a.body) # ""

\* The wallet request a is answered and its body has passed the validation
\* of its handler; GET /api/balance has none.
PassedValidation(a) ==
  /\ a.kind \in WalletKinds /\ a.pc = "done"
  /\ ~NullPayload(a)
  /\ ~FailedValidation(a)

\* The tool each wallet route is to call.
RouteTools ==
  { <<"Balance", "get_balance">>, <<"MakeInvoice", "make_invoice">>,
    <<"PayInvoice", "pay_invoice">>, <<"SendEcash", "send_ecash">> }

\* The request a made one remote call, of its own tool, on a client of its
\* session.
Called(a) ==
  /\ Len(a.calls) = 1
  /\ <<a.kind, a.calls[1].tool>> \in RouteTools
  /\ a.calls[1].client \in ClientIds
  /\ clients[a.calls[1].client].session = a.sid

OneCallAsStated(a) ==
  /\ Called(a)
  /\ a.status = IF a.threw THEN 502 ELSE 200

\* One remote call, answered 502 with the handler's message when the call
\* threw or returned nothing to read the fields from, and 200 when it
\* returned an object, with or without the fields.
OneCall(a) ==
  /\ Called(a)
  /\ a.threw \/ a.result \in CallOutcomes \ {"throws"}
  /\ IF a.threw \/ a.result = "unstructured"
       THEN a.status = 502 /\ a.message = FailureOf(a.kind)
       ELSE a.status = 200 /\ a.result \in {"empty", "full"}

\* C8 as stated: a wallet request that passes validation on a session with a
\* pubkey makes exactly one remote call, of its own tool, on a client of its
\* session, and answers 200 if the call returns and 502 if it throws; no
\* request makes more than one remote call.
C8_OneRemoteCallAlways ==
  /\ \A a \in AllRequests : Len(a.calls) <= 1
  /\ ( PassedValidation(answered) /\ answered.keyed ) =>
       OneCallAsStated(answered)

\* C8 as amended: a wallet request that passes validation on a session with
\* a pubkey makes exactly one remote call, of its own tool, on a client of
\* its session; it answers 502 if the call throws or returns without a
\* structured result to read, and 200 if the call returns one.  This unless
\* the session has no client and creating one throws: then the request makes
\* no remote call, answers 503 and leaves the session without pubkey and
\* client.  No request makes more than one remote call.
C8_OneRemoteCall ==
  /\ \A a \in AllRequests : Len(a.calls) <= 1
  /\ ( PassedValidation(answered) /\ answered.keyed ) =>
       \/ OneCall(answered)
       \/ /\ answered.status = 503
          /\ answered.calls = <<>>
          /\ answered.made = NoClient
          /\ sessions[answered.sid] = ClearSession(sessions[answered.sid])

C8_Witness ==
  /\ answered.kind = "SendEcash"
  /\ PassedValidation(answered)
  /\ answered.keyed
  /\ answered.status = 200
  /\ answered.result = "full"
  /\ Len(answered.calls) = 1

NotConfigured(a) ==
  /\ a.status = 503
  /\ a.message = "Server pubkey not configured"
  /\ a.calls = <<>>
  /\ a.made = NoClient

\* C9 as stated: a wallet request on a session that has no serverPubkey
\* answers 503 'Server pubkey not configured', makes no remote call and
\* creates no client.
C9_NoPubkeyAlways503 ==
  ( answered.kind \in WalletKinds /\ ~answered.keyed ) =>
    NotConfigured(answered)

\* C9 as amended: a wallet request on a session that has no serverPubkey
\* makes no remote call and creates no client; it answers 503 'Server pubkey
\* not configured' exactly when it passes validation, 400 with the message of
\* the validation exactly when the validation rejects its body, and 500
\* exactly when its body is null, its handler having thrown.
C9_NoPubkey503 ==
  ( answered.kind \in WalletKinds /\ ~answered.keyed ) =>
    /\ answered.calls = <<>>
    /\ answered.made = NoClient
    /\ answered.status \in {400, 500, 503}
    /\ PassedValidation(answered) <=> NotConfigured(answered)
    /\ FailedValidation(answered) <=>
         /\ answered.status = 400
         /\ answered.message = Validate(answered.kind, answered.body)
    /\ NullPayload(answered) <=>
         /\ answered.status = 500
         /\ answered.message = "Internal Server Error"

C9_Witness ==
  /\ answered.kind = "PayInvoice"
  /\ ~answered.keyed
  /\ PassedValidation(answered)
  /\ answered.status = 503
  /\ getDefaultServerPubkey.defined

\* C10: at most one scanner is created and not yet released at any time.
C10_SingleFlight ==
  Cardinality({ k \in ScanIds : scans[k].release # "released" }) <= 1

\* ------------------------------------------------------- claims: scanner
\* The scans no settling function has run for: the flag of the closure is
\* unset, and the scan's cancel function still rejects it.
Unsettled == { k \in ScanIds : ~scans[k].settled }

\* The scans whose promise is pending: a settling function settles it only
\* after its await of finish(), when the scanner is released.
Pending == { k \in ScanIds : scans[k].outcome = "pending" }

\* The call c of cancelInvoiceScan is made in this step.
CancelCalled(c) == calls[c].pc = "idle" /\ calls'[c].op = "cancel"

\* The call c of cancelInvoiceScan that awaited a scan's cancel function
\* returns in this step.
CancelResolved(c) ==
  calls[c].op = "cancel" /\ calls[c].pc = "cancelling" /\ calls'[c].pc = "idle"

\* What a call was told to reject with.
GivenReason(c) ==
  IF calls[c].reason = "" THEN "Scan cancelled" ELSE calls[c].reason

\* C11: a cancelInvoiceScan that returns without awaiting was called with no
\* scan pending, and changes nothing; one that awaits a scan's cancel
\* function has begun rejecting a pending scan, and when it resolves that
\* scan's scanner has been released (stop and clear have settled) and its
\* promise is rejected with the given reason, 'Scan cancelled' if none.
C11_CancelReleasesThenRejects ==
  [][ \A c \in CallIds :
        /\ ( CancelCalled(c) /\ calls'[c].pc = "resume" ) =>
             /\ Unsettled = {}
             /\ UNCHANGED <<activeScanner, activeCancel, scans>>
        /\ ( CancelCalled(c) /\ calls'[c].pc = "cancelling" ) =>
             /\ calls'[c].scan \in Unsettled
             /\ scans'[calls'[c].scan].settled
             /\ scans'[calls'[c].scan].outcome = "pending"
        /\ CancelResolved(c) =>
             /\ scans[calls[c].scan].release = "released"
             /\ scans[calls[c].scan].outcome = "rejected"
             /\ scans[calls[c].scan].reason = GivenReason(c) ]_vars

\* The call c of scanInvoiceOnce is made in this step.
ScanCalled(c) == calls[c].pc = "idle" /\ calls'[c].op = "scan"

\* The call c of scanInvoiceOnce constructs its scanner in this step.
ScanConstructs(c) ==
  calls[c].op = "scan" /\ calls'[c].pc = "idle" /\ Len(scans') > Len(scans)

\* C12: a scanInvoiceOnce called while an earlier scan is pending begins
\* rejecting that scan with 'Interrupt previous scan', and when it constructs
\* the new scanner the scan it interrupted has been released and its promise
\* rejected with that reason.
C12_InterruptBeforeConstruct ==
  [][ \A c \in CallIds :
        /\ ScanCalled(c) =>
             \A k \in Unsettled :
               /\ scans'[k].settled
               /\ scans'[k].reason = "Interrupt previous scan"
        /\ ( ScanConstructs(c) /\ calls[c].pc = "cancelling" ) =>
             /\ scans[calls[c].scan].release = "released"
             /\ scans[calls[c].scan].outcome = "rejected"
             /\ scans[calls[c].scan].reason = "Interrupt previous scan" ]_vars

\* A scan is cancelled once rejectOnce has run for it on behalf of
\* cancelInvoiceScan or of an interrupting scanInvoiceOnce.
Cancelled(k) ==
  /\ scans[k].settled
  /\ scans[k].via = "reject"
  /\ scans[k].cancelled

\* C13: the camera of a cancelled scan is not running, whether the cancel came
\* while the camera ran or while scanner.start() had not completed.
C13_CancelledCameraNotRunning ==
  \A k \in ScanIds : Cancelled(k) => scans[k].camera # "running"

\* C14: activeCancel is the cancel function of every scan that is pending, so
\* that a cancelInvoiceScan or scanInvoiceOnce reaches it.
C14_PendingScanCancellable ==
  \A k \in Unsettled : activeCancel = k

\* C15: once a settling function has run for a scan, no later decode, cancel
\* or start failure changes which one it was or the error it was given; the
\* promise, once settled, keeps its outcome, which is that function's; and
\* releaseScanner runs through stop and clear once.
C15_SettlesOnce ==
  [][ \A k \in ScanIds :
        /\ scans[k].settled =>
             /\ scans'[k].settled
             /\ scans'[k].via = scans[k].via
             /\ scans'[k].reason = scans[k].reason
        /\ scans[k].outcome # "pending" =>
             scans'[k].outcome = scans[k].outcome
        /\ scans'[k].outcome = "resolved" => scans'[k].via = "resolve"
        /\ scans'[k].outcome = "rejected" => scans'[k].via = "reject"
        /\ scans'[k].release # scans[k].release =>
             <<scans[k].release, scans'[k].release>> \in
               { <<"none", "stopping">>, <<"stopping", "clearing">>,
                 <<"clearing", "released">> } ]_vars

C15_Witness ==
  \E k \in ScanIds :
    /\ scans[k].ignored
    /\ scans[k].camera = "running"
    /\ scans[k].outcome = "rejected"

\* C16: when the click handler of the scan button has completed, whatever the
\* outcome of its scan, the scan button is enabled, the scanner panel is
\* hidden and no scan is pending.
C16_ScanClickRestoresPage ==
  finished.kind = "scan" =>
    /\ ~scanDisabled
    /\ panelHidden
    /\ Pending = {}

\* ------------------------------------------------------- claims: gateway
\* C17 as stated: for a cleared session, whatever SERVER_PUBKEY is, the
\* session holds neither pubkey nor client, GET /api/server-pubkey reports
\* hasServerPubkey false and every wallet operation answers 503.
C17_DisconnectStickyAlways ==
  /\ \A s \in cleared : sessions[s] = ClearSession(sessions[s])
  /\ answered.sid \in cleared =>
       /\ answered.kind = "GetPubkey" => ~answered.flag
       /\ answered.kind \in WalletKinds => answered.status = 503

\* C17 as amended: the same, with 503 for every wallet operation that passes
\* validation, 400 for one that validation rejects and 500 for one whose
\* body is null.
C17_DisconnectSticky ==
  /\ \A s \in cleared : sessions[s] = ClearSession(sessions[s])
  /\ answered.sid \in cleared =>
       /\ answered.kind = "GetPubkey" =>
            ~answered.flag /\ ~answered.answer.defined
       /\ answered.kind \in WalletKinds =>
            /\ answered.status \in {400, 500, 503}
            /\ answered.status = 500 <=> answered.body.isNull
            /\ answered.status = 400 <=>
                 ( answered.kind # "Balance"
                   /\ ~answered.body.isNull
                   /\ Validate(answered.kind, answered.body) # "" )
            /\ answered.calls = <<>>

C17_Witness ==
  /\ getDefaultServerPubkey.defined
  /\ answered.sid \in cleared
  /\ answered.kind = "SendEcash"
  /\ answered.status = 503

\* The request answered by this step is a POST /api/server-pubkey whose
\* trimmed pubkey is the one the session had when the body was read.
SamePubkeyPost ==
  /\ answered'.kind = "PostPubkey"
  /\ answered'.body.isString
  /\ trim(answered'.body.text) # <<>>
  /\ ~answered'.changed
  /\ sessions[answered'.sid].serverPubkey = Str(trim(answered'.body.text))

\* C18: a POST /api/server-pubkey with the pubkey the session already has
\* calls no disconnect, leaves the session's pubkey and an existing client as
\* they are, creates a client only if the session has none, and answers 200
\* with configured: true and that pubkey.
C18_SamePubkeyIdempotent ==
  [][ SamePubkeyPost =>
        LET a == answered'
        IN /\ a.target = NoClient
           /\ \A c \in ClientIds : clients'[c] = clients[c]
           /\ sessions[a.sid].client # NoClient =>
                ~Creates /\ sessions'[a.sid] = sessions[a.sid]
           /\ sessions'[a.sid].serverPubkey = sessions[a.sid].serverPubkey
           /\ a.status = 200
           /\ a.flag
           /\ a.answer = Str(trim(a.body.text)) ]_vars

\* C19: when a POST /api/server-pubkey is answered 200 with configured:
\* true, the session holds a client, and its serverPubkey is the serverPubkey
\* field of the answer and the trimmed pubkey of the request.
C19_ConfiguredMeansClient ==
  ( answered.kind = "PostPubkey" /\ answered.status = 200 /\ answered.flag ) =>
    /\ sessions[answered.sid].client # NoClient
    /\ sessions[answered.sid].serverPubkey = answered.answer
    /\ answered.answer = Str(trim(answered.body.text))

\* C20: a request in whose ensureSessionClient createCashubashClient threw
\* has constructed no client and leaves its session with neither pubkey nor
\* client; if it is a POST /api/server-pubkey that had set a new pubkey, its
\* answer is 503 'Failed to configure server pubkey'.
C20_CreateThrows ==
  answered.createThrew =>
    /\ answered.made = NoClient
    /\ ~sessions[answered.sid].serverPubkey.defined
    /\ sessions[answered.sid].client = NoClient
    /\ ( answered.kind = "PostPubkey" /\ answered.changed ) =>
         /\ answered.status = 503
         /\ answered.message = "Failed to configure server pubkey"

C20_Witness ==
  /\ answered.createThrew
  /\ answered.kind = "PostPubkey"
  /\ answered.changed
  /\ answered.prev # NoClient
  /\ answered.status = 503

\* The routes that read a JSON body.
PostKinds == { "PostPubkey", "MakeInvoice", "PayInvoice", "SendEcash" }

\* The body of the request a is invalid input for its route: it is not JSON;
\* serverPubkey is not a string or is blank; amount is not a finite positive
\* number (make-invoice, send-ecash); invoice is missing or the amount
\* override is a number that is not positive (pay-invoice).
InvalidInput(a) ==
  LET b == a.body
  IN \/ ~b.json
     \/ /\ a.kind = "PostPubkey"
        /\ ~b.isString \/ trim(b.text) = <<>>
     \/ /\ a.kind \in {"MakeInvoice", "SendEcash"}
        /\ ~(b.amountType = "number" /\ b.finite /\ b.amount > 0)
     \/ /\ a.kind = "PayInvoice"
        /\ ~b.invoice \/ (b.amountType = "number" /\ b.finite /\ b.amount <= 0)

\* The step that answers 400 changes no session and no client, and the
\* request has called no disconnect, created no client and made no remote
\* call.
RejectedCleanly ==
  answered'.status = 400 =>
    /\ sessions' = sessions
    /\ clients' = clients
    /\ answered'.target = NoClient
    /\ answered'.made = NoClient
    /\ answered'.calls = <<>>

\* C21: a request with invalid input answers 400, also on a session without
\* pubkey, and the step that answers 400 leaves every session and client as
\* it was; the request has created no client and made no remote call.
C21_InvalidInputAnswers400 ==
  [][ /\ ( answered'.kind \in PostKinds /\ InvalidInput(answered') ) =>
           answered'.status = 400
      /\ RejectedCleanly ]_vars

\* C22: no remote call is issued on a client on which disconnect has been
\* called.
C22_NoCallAfterDisconnect ==
  \A c \in ClientIds : ~clients[c].staleCall

\* The requests under way after the step.
AllRequestsAfter == { req'[r] : r \in ReqIds } \cup {answered'}

\* C28: an answer sets the cookie exactly when the request carried none;
\* a request that carried a cookie is served from the session of that value;
\* every request under way has its session in the map, and no session leaves
\* the map.
C28_SetCookieAndSessionKept ==
  [][ /\ answered'.pc = "done" =>
           ( answered'.setCookie <=> answered'.cookie = NoCookie )
      /\ \A a \in AllRequestsAfter :
           a.kind # "none" =>
             /\ a.sid \in DOMAIN sessions'
             /\ a.cookie # NoCookie => a.sid = a.cookie
      /\ DOMAIN sessions \subseteq DOMAIN sessions' ]_vars

\* ---------------------------------------------------- claims: the page
\* The click handlers of the scan button that have not finished.
ScanHandlers == { h \in UiIds : ui[h].kind = "scan" }

\* C23: whenever the page can take a click, at most one scan is pending and
\* at most one click handler of the scan button is under way, and while one
\* is under way the scan button is disabled.
C23_OneScanFromUi ==
  Quiet =>
    /\ Cardinality(Unsettled) <= 1
    /\ Cardinality(ScanHandlers) <= 1
    /\ ScanHandlers # {} => scanDisabled

\* The body of the request is one the page sends: an object whose pubkey is
\* a string that is not blank, or one that passes Validate.
PageSends(a) ==
  /\ a.body.json /\ ~a.body.isNull
  /\ a.kind = "PostPubkey" => a.body.isString /\ trim(a.body.text) # <<>>
  /\ a.kind \in WalletKinds => Validate(a.kind, a.body) = ""

\* Every answer of the gateway is one of GatewayAnswers, and a body the page
\* sends is answered 200, 502 or 503, as PageAnswers has it.
GatewayAnswersCover ==
  answered.pc = "done" =>
    /\ [status |-> answered.status, message |-> answered.message]
         \in GatewayAnswers(answered.kind)
    /\ ( answered.kind \in PostKinds => PageSends(answered) ) =>
         answered.status \in {200, 502, 503}

PollingStopped(p) ==
  p.timers = {} /\ p.balanceIntervalId = 0 /\ ~p.balanceSyncEnabled

SamePolling(p, q) ==
  /\ p.timers = q.timers
  /\ p.balanceIntervalId = q.balanceIntervalId
  /\ p.balanceSyncEnabled = q.balanceSyncEnabled

\* The step registers a timer or sets balanceSyncEnabled.
PollingStarts ==
  \/ page'.timers \ page.timers # {}
  \/ page'.balanceSyncEnabled /\ ~page.balanceSyncEnabled

\* The step handles an answer with hasServerPubkey true or configured true.
Configured(h) == h.kind \in {"bootstrap", "submit"} /\ h.ok /\ h.flag

\* C24: while the pubkey gate is shown, no timer is registered and
\* balanceSyncEnabled is false; polling is started only by the step that
\* handles a status answer with hasServerPubkey true or a POST
\* /api/server-pubkey answer with configured true.
C24_GateStopsPolling ==
  [][ /\ page'.gate = "shown" => PollingStopped(page')
      /\ PollingStarts => Configured(handled') ]_vars

C24_Witness ==
  /\ page.gate = "shown"
  /\ handled.kind = "balance"
  /\ handled.status = 503
  /\ handled.polling

BalanceRequests == { f \in FetchIds : fetches[f] = Fetching("balance") }

\* C25: at most one timer is registered, it is the one balanceIntervalId
\* names, and balanceSyncEnabled is true exactly when one is registered;
\* startBalancePolling on a running poll registers no timer and sends no
\* request.
C25_OnePollTimer ==
  [][ /\ Cardinality(page'.timers) <= 1
      /\ page'.timers = IF page'.balanceIntervalId = 0
                          THEN {} ELSE {page'.balanceIntervalId}
      /\ page'.balanceSyncEnabled <=> page'.balanceIntervalId # 0
      /\ ( Configured(handled') /\ page.balanceIntervalId # 0 ) =>
           /\ SamePolling(page', page)
           /\ BalanceRequests' = BalanceRequests ]_vars

C25_Witness ==
  /\ Configured(handled)
  /\ handled.kind = "submit"
  /\ handled.polling
  /\ BalanceRequests # {}

\* C26: a balance answer that is handled while polling is stopped changes
\* neither the balance display nor the status line.
C26_NoEffectAfterStop ==
  [][ ( handled'.kind = "balance" /\ ~page.balanceSyncEnabled ) =>
        /\ page'.balanceDisplay = page.balanceDisplay
        /\ page'.statusLine = page.statusLine ]_vars

\* A wallet call of the page has failed.
FailedWalletCall(h) == h.kind \in {"balance"} \cup WalletForms /\ ~h.ok

\* The answer with the status and message g, as api() sees it.
Failure(g) ==
  [NetworkFailure EXCEPT !.status = g.status, !.json = g.status # 500,
                         !.message = g.message]

\* Of the messages api() throws for the gateway's answers to wallet calls
\* and for a failure of the network, isPubkeyMissingError holds of the
\* message of the 503 alone, which is 'Server pubkey not configured'.
MissingExactlyFor503 ==
  /\ ~isPubkeyMissingError(api(NetworkFailure).message)
  /\ \A route \in WalletKinds :
       \A g \in GatewayAnswers(route) :
         g.status # 200 =>
           /\ isPubkeyMissingError(api(Failure(g)).message) <=> g.status = 503
           /\ g.status = 503 => g.message = "Server pubkey not configured"

\* C27: a failed wallet call shows the pubkey gate and stops polling when
\* the gateway answered 503, whose message alone contains 'server pubkey not
\* configured' in any case of letters, and otherwise leaves the gate and the
\* polling as they were.
C27_GateOnMissingPubkey ==
  [][ /\ MissingExactlyFor503
      /\ FailedWalletCall(handled') =>
           IF handled'.status = 503
             THEN page'.gate = "shown" /\ PollingStopped(page')
             ELSE page'.gate = page.gate /\ SamePolling(page', page) ]_vars

C27_Witness ==
  /\ handled.kind = "SendEcash"
  /\ handled.status = 503
  /\ handled.polling
  /\ page.gate = "shown"
  /\ PollingStopped(page)

ExitRequests == { f \in FetchIds : fetches[f] = Fetching("exit") }

\* C29: when the DELETE of a confirmed disconnect succeeds, polling is
\* stopped, the gate is shown and the pubkey field is empty; when it fails,
\* the polling and the gate are as they were and the confirm button is
\* enabled; while a DELETE is in flight the confirm button is disabled and
\* no second DELETE is in flight.
C29_ExitFlow ==
  [][ /\ ( handled'.kind = "exit" /\ handled'.ok ) =>
           /\ PollingStopped(page')
           /\ page'.gate = "shown"
           /\ page'.pubkeyValue = <<>>
      /\ ( handled'.kind = "exit" /\ ~handled'.ok ) =>
           /\ page'.gate = page.gate
           /\ SamePolling(page', page)
           /\ ~page'.exitConfirmDisabled
      /\ Cardinality(ExitRequests') <= 1
      /\ ExitRequests' # {} => page'.exitConfirmDisabled ]_vars

====
